---------------------------- MODULE Spec2Model ----------------------------
(***************************************************************************)
(* Chess-PGN-Viewer: the PGN parser (ChessUtils.parsePGN), its move-tree   *)
(* builder and the approximate SAN executor (ChessUtils.executeMove) of    *)
(* src/src/App.jsx.                                                        *)
(*                                                                         *)
(* Text is a sequence of one-character strings, a board is a function      *)
(* [0..7 -> [0..7 -> cell]] indexed as the code indexes it (row 0 is rank  *)
(* 8, column 0 is file a), a cell is a piece letter or Null.               *)
(***************************************************************************)
EXTENDS Integers, Sequences, FiniteSets, TLC

(***************************************************************************)
(* Characters and strings                                                  *)
(***************************************************************************)
Null == "null"

None == <<>>

DigitChars == {"0", "1", "2", "3", "4", "5", "6", "7", "8", "9"}

DigitVal(ch) ==
  CASE ch = "0" -> 0 [] ch = "1" -> 1 [] ch = "2" -> 2 [] ch = "3" -> 3
    [] ch = "4" -> 4 [] ch = "5" -> 5 [] ch = "6" -> 6 [] ch = "7" -> 7
    [] ch = "8" -> 8 [] ch = "9" -> 9

DigitChar(n) ==
  CASE n = 0 -> "0" [] n = 1 -> "1" [] n = 2 -> "2" [] n = 3 -> "3"
    [] n = 4 -> "4" [] n = 5 -> "5" [] n = 6 -> "6" [] n = 7 -> "7"
    [] n = 8 -> "8" [] n = 9 -> "9"

FileChars == {"a", "b", "c", "d", "e", "f", "g", "h"}

RankChars == {"1", "2", "3", "4", "5", "6", "7", "8"}

PieceTypeChars == {"K", "Q", "R", "N", "B"}

PromoChars == {"Q", "R", "N", "B"}

\* targetFile.charCodeAt(0) - 97
FileIdx(ch) ==
  CASE ch = "a" -> 0 [] ch = "b" -> 1 [] ch = "c" -> 2 [] ch = "d" -> 3
    [] ch = "e" -> 4 [] ch = "f" -> 5 [] ch = "g" -> 6 [] ch = "h" -> 7

toUpperCase(ch) ==
  CASE ch = "k" -> "K" [] ch = "q" -> "Q" [] ch = "r" -> "R"
    [] ch = "b" -> "B" [] ch = "n" -> "N" [] ch = "p" -> "P"
    [] OTHER -> ch

toLowerCase(ch) ==
  CASE ch = "K" -> "k" [] ch = "Q" -> "q" [] ch = "R" -> "r"
    [] ch = "B" -> "b" [] ch = "N" -> "n" [] ch = "P" -> "p"
    [] OTHER -> ch

Abs(x) == IF x < 0 THEN -x ELSE x

Sign(x) == IF x < 0 THEN -1 ELSE IF x > 0 THEN 1 ELSE 0

Max(x, y) == IF x < y THEN y ELSE x

Last(s) == s[Len(s)]

Front(s) == SubSeq(s, 1, Len(s) - 1)

RECURSIVE Join(_, _)
\* Array.prototype.join: the strings of list, sep between two of them
Join(list, sep) ==
  IF list = <<>> THEN <<>>
  ELSE IF Len(list) = 1 THEN list[1]
  ELSE list[1] \o sep \o Join(Tail(list), sep)

RECURSIVE SplitOn(_, _)
\* String.prototype.split(ch) for a one-character separator
SplitOn(s, ch) ==
  IF \A i \in 1..Len(s) : s[i] # ch THEN <<s>>
  ELSE LET i == CHOOSE k \in 1..Len(s) :
                  s[k] = ch /\ \A j \in 1..(k - 1) : s[j] # ch
       IN <<SubSeq(s, 1, i - 1)>> \o SplitOn(SubSeq(s, i + 1, Len(s)), ch)

(***************************************************************************)
(* Board <-> FEN                                                           *)
(***************************************************************************)
Idx == 0..7

EmptyBoard == [r \in Idx |-> [c \in Idx |-> Null]]

\* 'rnbqkbnr/pppppppp/8/8/8/8/PPPPPPPP/RNBQKBNR w KQkq - 0 1'
initialFen ==
  <<"r","n","b","q","k","b","n","r","/","p","p","p","p","p","p","p","p","/",
    "8","/","8","/","8","/","8","/",
    "P","P","P","P","P","P","P","P","/","R","N","B","Q","K","B","N","R",
    " ","w"," ","K","Q","k","q"," ","-"," ","0"," ","1">>

RECURSIVE FenRowCells(_, _, _)
\* the inner loop of fenToBoard: cells of one rank, written from column c on.
\* A digit skips that many columns, any other character is stored at column c.
FenRowCells(row, c, cells) ==
  IF row = <<>> THEN cells
  ELSE IF Head(row) \in DigitChars
       THEN FenRowCells(Tail(row), c + DigitVal(Head(row)), cells)
       ELSE FenRowCells(Tail(row), c + 1,
                        IF c \in Idx THEN [cells EXCEPT ![c] = Head(row)]
                        ELSE cells)

fenToBoard(fen) ==
  LET f        == IF fen = <<>> THEN initialFen ELSE fen
      position == SplitOn(f, " ")[1]
      rows     == SplitOn(position, "/")
  IN [r \in Idx |->
        IF r + 1 <= Len(rows)
        THEN FenRowCells(rows[r + 1], 0, [c \in Idx |-> Null])
        ELSE [c \in Idx |-> Null]]

\* rows.forEach writes board[r][c] for r >= 8 when the placement has more
\* than eight ranks: board[r] is undefined there and the write throws.
fenToBoardThrows(fen) ==
  LET f        == IF fen = <<>> THEN initialFen ELSE fen
      position == SplitOn(f, " ")[1]
      rows     == SplitOn(position, "/")
  IN \E r \in 9..Len(rows) : \E i \in 1..Len(rows[r]) :
        rows[r][i] \notin DigitChars

RECURSIVE FenRowMutant(_, _, _)
\* the row encoder with the run of empty squares never reset after a piece
FenRowMutant(row, c, empty) ==
  IF c > 7 THEN (IF empty > 0 THEN <<DigitChar(empty)>> ELSE <<>>)
  ELSE IF row[c] = Null THEN FenRowMutant(row, c + 1, empty + 1)
  ELSE (IF empty > 0 THEN <<DigitChar(empty)>> ELSE <<>>)
       \o <<row[c]>> \o FenRowMutant(row, c + 1, empty)

RECURSIVE FenRow(_, _, _)
\* the row.forEach of boardToFen from column c on, empty = the run so far
FenRow(row, c, empty) ==
  IF c > 7 THEN (IF empty > 0 THEN <<DigitChar(empty)>> ELSE <<>>)
  ELSE IF row[c] = Null THEN FenRow(row, c + 1, empty + 1)
  ELSE (IF empty > 0 THEN <<DigitChar(empty)>> ELSE <<>>)
       \o <<row[c]>> \o FenRow(row, c + 1, 0)

boardToFen(board, active) ==
  Join([r \in 1..8 |-> FenRow(board[r - 1], 0, 0)], <<"/">>)
    \o <<" ", active, " ", "K", "Q", "k", "q", " ", "-", " ", "0", " ", "1">>


(***************************************************************************)
(* The SAN executor                                                        *)
(***************************************************************************)
Chars_OO == <<"O", "-", "O">>

Chars_00 == <<"0", "-", "0">>

Chars_OOO == <<"O", "-", "O", "-", "O">>

Chars_000 == <<"0", "-", "0", "-", "0">>

executeCastlingMutant(board, isWhite, kingside) ==
  LET row == IF isWhite THEN 7 ELSE 0
      K   == IF isWhite THEN "K" ELSE "k"
      R   == IF isWhite THEN "R" ELSE "r"
  IN IF kingside
     THEN [board EXCEPT ![row][4] = Null, ![row][6] = K, ![row][5] = R]
     ELSE [board EXCEPT ![row][4] = Null, ![row][2] = K, ![row][3] = R]

executeCastlingForColor(board, isWhite, kingside) ==
  LET row == IF isWhite THEN 7 ELSE 0
      K   == IF isWhite THEN "K" ELSE "k"
      R   == IF isWhite THEN "R" ELSE "r"
  IN IF kingside
     THEN [board EXCEPT ![row][4] = Null, ![row][6] = K,
                        ![row][7] = Null, ![row][5] = R]
     ELSE [board EXCEPT ![row][4] = Null, ![row][2] = K,
                        ![row][0] = Null, ![row][3] = R]

\* the groups of the SAN pattern before the capture sign, [KQRNB]?[a-h]?[1-8]?
\* (the three classes are disjoint, so each group is the characters of its
\* class, and the prefix matches when it is the three groups in order)
PrefixGroups(p) ==
  [pieceType  |-> SelectSeq(p, LAMBDA ch : ch \in PieceTypeChars),
   sourceFile |-> SelectSeq(p, LAMBDA ch : ch \in FileChars),
   sourceRank |-> SelectSeq(p, LAMBDA ch : ch \in RankChars)]

PrefixOk(p, g) ==
  /\ Len(g.pieceType) <= 1
  /\ Len(g.sourceFile) <= 1
  /\ Len(g.sourceRank) <= 1
  /\ p = g.pieceType \o g.sourceFile \o g.sourceRank

\* e2: the end of the target square; promotion: group 8
SanGroups(san, e2, promotion) ==
  LET hasTarget == e2 >= 2 /\ san[e2 - 1] \in FileChars /\ san[e2] \in RankChars
      hasX      == e2 >= 3 /\ san[e2 - 2] = "x"
      prefix    == SubSeq(san, 1, IF hasX THEN e2 - 3 ELSE e2 - 2)
      g         == PrefixGroups(prefix)
  IN IF hasTarget /\ PrefixOk(prefix, g)
     THEN [ok |-> TRUE,
           pieceType  |-> g.pieceType,
           sourceFile |-> g.sourceFile,
           sourceRank |-> g.sourceRank,
           targetFile |-> san[e2 - 1],
           targetRank |-> san[e2],
           promotion  |-> promotion]
     ELSE [ok |-> FALSE, pieceType |-> None, sourceFile |-> None,
           sourceRank |-> None, targetFile |-> "a", targetRank |-> "1",
           promotion |-> None]

\* e1: the end of the promotion suffix, if there is one
SanPromo(san, e1) ==
  IF e1 >= 2 /\ san[e1 - 1] = "=" /\ san[e1] \in PromoChars
  THEN SanGroups(san, e1 - 2, <<san[e1]>>)
  ELSE SanGroups(san, e1, None)

\* san.match(/^([KQRNB])?([a-h])?([1-8])?(x)?([a-h])([1-8])(=([QRNB]))?[+#]?$/)
\* The string is read from the right: the check suffix, the promotion, the
\* target square, the capture sign, and the prefix [KQRNB]?[a-h]?[1-8]?. No
\* string has two such decompositions. An unmatched group is None.
SanMatch(san) ==
  IF san # <<>> /\ Last(san) \in {"+", "#"}
  THEN SanPromo(san, Len(san) - 1)
  ELSE SanPromo(san, Len(san))

\* the squares in row-major scan order, r = 0..7 outside, c = 0..7 inside
ScanOrder == [k \in 1..64 |-> <<(k - 1) \div 8, (k - 1) % 8>>]

\* the pawn branch with the capture test satisfied by an empty target square
PawnActionAnyDiagonal(b, isWhite, r, c, tRow, tCol) ==
  \/ (tCol = c /\ tRow - r = (IF isWhite THEN -1 ELSE 1)
       /\ b[tRow][tCol] = Null)
  \/ (Abs(tCol - c) = 1 /\ tRow - r = (IF isWhite THEN -1 ELSE 1))

\* the pawn branch of the scan: single push, double push or capture
PawnAction(b, isWhite, r, c, tRow, tCol) ==
  LET dir == IF isWhite THEN -1 ELSE 1
      rd  == tRow - r
      cd  == tCol - c
      tgt == b[tRow][tCol]
      fwd == cd = 0 /\ tgt = Null
      single == cd = 0 /\ rd = dir /\ fwd
      double == /\ cd = 0
                /\ \/ (isWhite /\ r = 6 /\ rd = -2)
                   \/ (~isWhite /\ r = 1 /\ rd = 2)
                /\ b[r + dir][c] = Null
                /\ fwd
      cap == Abs(cd) = 1 /\ rd = dir /\ tgt # Null
  IN single \/ double \/ cap

\* the test of the scan loop for square (r, c)
IsPotential(b, m, base, piece, isWhite, r, c, tRow, tCol) ==
  /\ b[r][c] = piece
  /\ m.sourceFile # None => FileIdx(m.sourceFile[1]) = c
  /\ m.sourceRank # None => DigitVal(m.sourceRank[1]) = 8 - r
  /\ base = "P" => PawnAction(b, isWhite, r, c, tRow, tCol)

\* every square strictly between (r, c) and the target along the step is empty
RayClear(b, r, c, tRow, tCol) ==
  LET sr == Sign(tRow - r)
      sc == Sign(tCol - c)
      n  == Max(Abs(tRow - r), Abs(tCol - c))
  IN \A k \in 1..(n - 1) : b[r + k * sr][c + k * sc] = Null

\* the callback of potentials.filter throws: a bishop, or a queen, whose own
\* square is the target has ar = ac = 0, the step is 0/0 = NaN and b[NaN][NaN]
\* is a read of undefined.
GeometryThrows(base, r, c, tRow, tCol) ==
  base \in {"B", "Q"} /\ r = tRow /\ c = tCol

\* the callback of potentials.filter
GeometryOk(b, base, r, c, tRow, tCol) ==
  LET dr == tRow - r
      dc == tCol - c
      ar == Abs(dr)
      ac == Abs(dc)
  IN CASE base = "N" -> (ar = 2 /\ ac = 1) \/ (ar = 1 /\ ac = 2)
       [] base = "B" -> ar = ac /\ RayClear(b, r, c, tRow, tCol)
       [] base = "R" -> ~(dr # 0 /\ dc # 0) /\ RayClear(b, r, c, tRow, tCol)
       [] base = "Q" -> (ar = ac \/ dr = 0 \/ dc = 0)
                        /\ RayClear(b, r, c, tRow, tCol)
       [] base = "K" -> ar <= 1 /\ ac <= 1
       [] OTHER -> TRUE

\* the scan loop of lines 90-110
Potentials(b, m, base, piece, isWhite, tRow, tCol) ==
  SelectSeq(ScanOrder, LAMBDA sq :
    IsPotential(b, m, base, piece, isWhite, sq[1], sq[2], tRow, tCol))

\* potentials.filter(...) of lines 114-146
Valid(b, base, potentials, tRow, tCol) ==
  SelectSeq(potentials, LAMBDA sq :
    GeometryOk(b, base, sq[1], sq[2], tRow, tCol))

\* const [r, c] = potentials[0]: the geometry filter is not consulted
SourceSquareFirst(valid, potentials) == potentials[1]

\* const [r, c] = valid[0] || potentials[0]
SourceSquare(valid, potentials) ==
  IF valid # <<>> THEN valid[1] ELSE potentials[1]

\* lines 149-154
Place(b, isWhite, promotion, tRow, tCol, src) ==
  IF src = <<>> THEN b
  ELSE IF promotion # None
  THEN [b EXCEPT ![src[1]][src[2]] = Null,
                 ![tRow][tCol] = IF isWhite THEN toUpperCase(promotion[1])
                                 ELSE toLowerCase(promotion[1])]
  ELSE [[b EXCEPT ![tRow][tCol] = b[src[1]][src[2]]]
           EXCEPT ![src[1]][src[2]] = Null]

\* lines 112-148; a throw of the filter is caught at line 155 and the board
\* passed in is returned
MoveFrom(b, isWhite, promotion, base, tRow, tCol, potentials) ==
  IF potentials = <<>> THEN b
  ELSE IF \E i \in 1..Len(potentials) :
             GeometryThrows(base, potentials[i][1], potentials[i][2],
                            tRow, tCol)
  THEN b
  ELSE Place(b, isWhite, promotion, tRow, tCol,
             SourceSquare(Valid(b, base, potentials, tRow, tCol), potentials))

\* lines 85-110
MoveTo(b, isWhite, m, base, tRow, tCol) ==
  MoveFrom(b, isWhite, m.promotion, base, tRow, tCol,
           Potentials(b, m, base,
                      IF isWhite THEN toUpperCase(base) ELSE toLowerCase(base),
                      isWhite, tRow, tCol))

\* lines 82-88
MoveMatched(b, isWhite, m) ==
  IF ~m.ok THEN b
  ELSE MoveTo(b, isWhite, m,
              IF m.pieceType # None THEN m.pieceType[1] ELSE "P",
              8 - DigitVal(m.targetRank), FileIdx(m.targetFile))

executeMove(board, moveObj) ==
  IF moveObj.san = <<>> THEN board
  ELSE IF moveObj.san \in {Chars_OO, Chars_00}
  THEN executeCastlingForColor(board, moveObj.isWhite = TRUE, TRUE)
  ELSE IF moveObj.san \in {Chars_OOO, Chars_000}
  THEN executeCastlingForColor(board, moveObj.isWhite = TRUE, FALSE)
  ELSE MoveMatched(board, moveObj.isWhite = TRUE, SanMatch(moveObj.san))

\* const b = [...board]: every row of b is a row array of the argument
SharedRowsAll == Idx

\* line 72, const b = board.map(r => [...r]): the rows of b that are row
\* arrays of the argument itself; every row is spread into a new array
SharedRows == {}

\* line 59, the same copy in executeCastlingForColor
CastlingSharedRows == {}

\* the array given to executeCastlingForColor, as it is after the call: the
\* writes of lines 64 and 66 go to b
CastlingArgumentAfter(board, isWhite, kingside) ==
  [r \in Idx |->
     IF r \in CastlingSharedRows
     THEN executeCastlingForColor(board, isWhite, kingside)[r]
     ELSE board[r]]

\* the array given to executeMove, as it is after the call: the writes of
\* lines 151-153 go to b, castling is given b, and the catch of line 155
\* returns the argument without a write
ArgumentAfter(board, moveObj) ==
  [r \in Idx |->
     IF r \notin SharedRows THEN board[r]
     ELSE IF moveObj.san \in {Chars_OO, Chars_00}
     THEN CastlingArgumentAfter(board, moveObj.isWhite = TRUE, TRUE)[r]
     ELSE IF moveObj.san \in {Chars_OOO, Chars_000}
     THEN CastlingArgumentAfter(board, moveObj.isWhite = TRUE, FALSE)[r]
     ELSE executeMove(board, moveObj)[r]]

(***************************************************************************)
(* parsePGN: text to chunks, chunk to headers and tokens                   *)
(***************************************************************************)
LF == "\n"

\* \s of the regular expressions and of String.prototype.trim
Whitespace == {" ", LF, "\t", "\r"}

Letters ==
  {"a","b","c","d","e","f","g","h","i","j","k","l","m","n","o","p","q","r",
   "s","t","u","v","w","x","y","z","A","B","C","D","E","F","G","H","I","J",
   "K","L","M","N","O","P","Q","R","S","T","U","V","W","X","Y","Z"}

\* \w
WordChars == Letters \cup DigitChars \cup {"_"}

Chars_Event == <<"[", "E", "v", "e", "n", "t">>

RECURSIVE TrimStart(_)
TrimStart(s) ==
  IF s # <<>> /\ Head(s) \in Whitespace THEN TrimStart(Tail(s)) ELSE s

RECURSIVE TrimEnd(_)
TrimEnd(s) ==
  IF s # <<>> /\ Last(s) \in Whitespace THEN TrimEnd(Front(s)) ELSE s

Trim(s) == TrimEnd(TrimStart(s))

\* s.startsWith(p) from position i (1-based)
StartsWithAt(s, i, p) ==
  i + Len(p) - 1 <= Len(s) /\ \A k \in 1..Len(p) : s[i + k - 1] = p[k]

\* s.includes(p)
Includes(s, p) == \E i \in 1..Len(s) : StartsWithAt(s, i, p)

\* the length of the run of characters of set from position i on
RECURSIVE RunLen(_, _, _)
RunLen(s, i, set) ==
  IF i <= Len(s) /\ s[i] \in set THEN 1 + RunLen(s, i + 1, set) ELSE 0

\* pgnText.replace(/\r/g, '')
RemoveCR(s) == SelectSeq(s, LAMBDA ch : ch # "\r")

\* /\n{2,}(?=\[Event\s)/ matches at i: the length of the match, 0 for none.
\* The run of line feeds is taken whole: a shorter one is followed by a line
\* feed, not by the bracket.
GameBreakAt(s, i) ==
  LET n == RunLen(s, i, {LF})
  IN IF /\ n >= 2
        /\ StartsWithAt(s, i + n, Chars_Event)
        /\ i + n + 6 <= Len(s)
        /\ s[i + n + 6] \in Whitespace
     THEN n ELSE 0

\* the first position from i on where the separator matches, 0 for none
NextGameBreak(s, i) ==
  IF \E k \in i..Len(s) : GameBreakAt(s, k) > 0
  THEN CHOOSE k \in i..Len(s) :
         /\ GameBreakAt(s, k) > 0
         /\ \A j \in i..(k - 1) : GameBreakAt(s, j) = 0
  ELSE 0

RECURSIVE SplitGames(_, _)
\* s.split(/\n{2,}(?=\[Event\s)/g): the pieces of s from position i on
SplitGames(s, i) ==
  IF NextGameBreak(s, i) = 0 THEN <<SubSeq(s, i, Len(s))>>
  ELSE <<SubSeq(s, i, NextGameBreak(s, i) - 1)>>
       \o SplitGames(s, NextGameBreak(s, i)
                          + GameBreakAt(s, NextGameBreak(s, i)))

\* /\d+\./.test(s)
HasNumberedMove(s) ==
  \E i \in 1..(Len(s) - 1) : s[i] \in DigitChars /\ s[i + 1] = "."

\* the filter of rawGames
KeepChunk(s) == s # <<>> /\ (Includes(s, Chars_Event) \/ HasNumberedMove(s))

\* lines 164-167: the chunks of the text, trimmed and filtered
RawGames(pgnText) ==
  LET split == SplitGames(RemoveCR(pgnText), 1)
  IN SelectSeq([i \in 1..Len(split) |-> Trim(split[i])], KeepChunk)

\* trimmed.match(/^\[(\w+)\s+"([^"]*)"\]$/): [ok, key, value]
HeaderMatch(t) ==
  LET k  == RunLen(t, 2, WordChars)
      w  == RunLen(t, 2 + k, Whitespace)
      q  == 2 + k + w
      ok == /\ Len(t) >= 6
            /\ t[1] = "["
            /\ k >= 1
            /\ w >= 1
            /\ q <= Len(t) - 2
            /\ t[q] = "\""
            /\ t[Len(t) - 1] = "\""
            /\ t[Len(t)] = "]"
            /\ \A i \in (q + 1)..(Len(t) - 2) : t[i] # "\""
  IN [ok    |-> ok,
      key   |-> IF ok THEN SubSeq(t, 2, 1 + k) ELSE <<>>,
      value |-> IF ok THEN SubSeq(t, q + 1, Len(t) - 2) ELSE <<>>]

\* headers[k] = v
SetHeader(headers, k, v) ==
  [x \in (DOMAIN headers) \cup {k} |-> IF x = k THEN v ELSE headers[x]]

RECURSIVE HeaderLoopReenters(_, _, _, _)
\* a loop that takes every bracket line as a header line, also after the
\* move text has begun
HeaderLoopReenters(lines, headers, moveText, inHeaders) ==
  IF lines = <<>> THEN [headers |-> headers, moveText |-> moveText]
  ELSE IF Trim(Head(lines)) = <<>>
  THEN HeaderLoopReenters(Tail(lines), headers, moveText, inHeaders)
  ELSE IF Trim(Head(lines))[1] = "["
  THEN HeaderLoopReenters(Tail(lines),
         IF HeaderMatch(Trim(Head(lines))).ok
         THEN SetHeader(headers, HeaderMatch(Trim(Head(lines))).key,
                        HeaderMatch(Trim(Head(lines))).value)
         ELSE headers,
         moveText, inHeaders)
  ELSE HeaderLoopReenters(Tail(lines), headers,
                          Append(moveText, Trim(Head(lines))), FALSE)

RECURSIVE HeaderLoop(_, _, _, _)
\* lines 177-187: the loop over the lines of a chunk
HeaderLoop(lines, headers, moveText, inHeaders) ==
  IF lines = <<>> THEN [headers |-> headers, moveText |-> moveText]
  ELSE LET trimmed == Trim(Head(lines))
           m       == HeaderMatch(trimmed)
       IN IF trimmed = <<>>
          THEN HeaderLoop(Tail(lines), headers, moveText, inHeaders)
          ELSE IF inHeaders /\ trimmed[1] = "["
          THEN HeaderLoop(Tail(lines),
                          IF m.ok THEN SetHeader(headers, m.key, m.value)
                          ELSE headers,
                          moveText, inHeaders)
          ELSE HeaderLoop(Tail(lines), headers,
                          Append(moveText, trimmed), FALSE)

NoHeaders == [x \in {} |-> <<>>]

\* the separator /(\{[^}]*\}|\(|\)|\d+\.\.\.|\d+\.|\s+)/ matches at i: the
\* length of the match, 0 for none. The alternatives are tried in order.
SeparatorAt(s, i) ==
  LET d == RunLen(s, i, DigitChars)
      close == IF \E j \in (i + 1)..Len(s) : s[j] = "}"
               THEN CHOOSE j \in (i + 1)..Len(s) :
                      s[j] = "}" /\ \A k \in (i + 1)..(j - 1) : s[k] # "}"
               ELSE 0
  IN IF s[i] = "{" /\ close > 0 THEN close - i + 1
     ELSE IF s[i] \in {"(", ")"} THEN 1
     ELSE IF d >= 1 /\ StartsWithAt(s, i + d, <<".", ".", ".">>) THEN d + 3
     ELSE IF d >= 1 /\ StartsWithAt(s, i + d, <<".">>) THEN d + 1
     ELSE RunLen(s, i, Whitespace)

RECURSIVE SplitTokens(_, _, _)
\* movesString.split(separator): the pieces between the separators and, the
\* group being a capture, the separators themselves
SplitTokens(s, i, cur) ==
  IF i > Len(s) THEN <<cur>>
  ELSE LET n == SeparatorAt(s, i)
       IN IF n > 0
          THEN <<cur, SubSeq(s, i, i + n - 1)>> \o SplitTokens(s, i + n, <<>>)
          ELSE SplitTokens(s, i + 1, Append(cur, s[i]))

\* lines 189-192, and the tok.trim() of line 201
Tokenize(moveText) ==
  LET kept == SelectSeq(SplitTokens(Join(moveText, <<" ">>), 1, <<>>),
                        LAMBDA t : t # <<>> /\ Trim(t) # <<>>)
  IN [i \in 1..Len(kept) |-> Trim(kept[i])]

\* tok.startsWith('{') && tok.endsWith('}')
IsCommentTok(tok) == tok # <<>> /\ tok[1] = "{" /\ Last(tok) = "}"

\* tok.slice(1, -1).trim()
CommentText(tok) == Trim(SubSeq(tok, 2, Len(tok) - 1))

\* tok.match(/^(\d+)(\.\.\.)?\.?$/): [ok, num, dots]
NumMatch(tok) ==
  LET d    == RunLen(tok, 1, DigitChars)
      rest == SubSeq(tok, d + 1, Len(tok))
  IN [ok   |-> d >= 1 /\ rest \in {<<>>, <<".">>, <<".", ".", ".">>,
                                   <<".", ".", ".", ".">>},
      digits |-> SubSeq(tok, 1, d),
      dots |-> Len(rest) >= 3]

RECURSIVE parseInt(_)
\* parseInt(digits, 10)
parseInt(digits) ==
  IF digits = <<>> THEN 0
  ELSE 10 * parseInt(Front(digits)) + DigitVal(Last(digits))

\* a pattern without the castling alternatives
IsSanTokNoCastling(tok) == SanMatch(tok).ok

\* sanRegex.test(tok), line 232
IsSanTok(tok) ==
  SanMatch(tok).ok \/ tok \in {Chars_OO, Chars_OOO, Chars_00, Chars_000}


(***************************************************************************)
(* parsePGN: the move-tree builder (lines 194-248)                         *)
(*                                                                         *)
(* A node is the moveObj of line 235. number is kept in half moves (twice  *)
(* the value of the code, where Black's n + 0.5 is 2n + 1); variations     *)
(* is <<>> while the code has no such field; fenAfter is <<>> until        *)
(* processSequence has set it.                                             *)
(***************************************************************************)
\* the locals of lines 194-198
NewBuilder ==
  [sequenceStack  |-> << <<>> >>,
   comment        |-> <<>>,
   expectingBlack |-> FALSE,
   moveNumber     |-> 1]

\* a comment given to the node made last instead of the one made next
OnCommentToLast(b, tok) ==
  LET top == Len(b.sequenceStack)
      seq == b.sequenceStack[top]
  IN IF seq = <<>> THEN b
     ELSE [b EXCEPT !.sequenceStack[top][Len(seq)].comment = CommentText(tok)]

OnComment(b, tok) == [b EXCEPT !.comment = CommentText(tok)]

OnOpen(b) == [b EXCEPT !.sequenceStack = Append(@, <<>>)]

\* sequenceStack.pop() leaves no sequence: currentSeq is undefined and
\* currentSeq.length throws
CloseThrows(b) == Len(b.sequenceStack) <= 1

\* a close that gives the finished sequence to the last main-line node
OnCloseToMain(b) ==
  LET finished == Last(b.sequenceStack)
      rest     == Front(b.sequenceStack)
  IN IF rest[1] = <<>>
     THEN [b EXCEPT !.sequenceStack = rest]
     ELSE [b EXCEPT !.sequenceStack =
             [rest EXCEPT ![1][Len(rest[1])].variations = Append(@, finished)]]

OnClose(b) ==
  LET finished   == Last(b.sequenceStack)
      rest       == Front(b.sequenceStack)
      currentSeq == Last(rest)
  IN IF currentSeq = <<>>
     THEN [b EXCEPT !.sequenceStack = rest]
     ELSE [b EXCEPT !.sequenceStack =
             [rest EXCEPT ![Len(rest)][Len(currentSeq)].variations =
                Append(@, finished)]]

\* a move-number token that sets the counter and leaves the flag
OnNumberKeepsFlag(b, tok) ==
  [b EXCEPT !.moveNumber = parseInt(NumMatch(tok).digits)]

OnNumber(b, tok) ==
  [b EXCEPT !.moveNumber = parseInt(NumMatch(tok).digits),
            !.expectingBlack = NumMatch(tok).dots]

MoveObj(b, tok) ==
  LET isWhite == ~b.expectingBlack
  IN [number     |-> IF isWhite THEN 2 * b.moveNumber ELSE 2 * b.moveNumber + 1,
      move       |-> tok,
      san        |-> tok,
      isWhite    |-> isWhite,
      comment    |-> b.comment,
      variations |-> <<>>,
      fenAfter   |-> <<>>]

\* a move that leaves the side to move and the counter as they were
OnMoveNoFlip(b, tok) ==
  [b EXCEPT !.sequenceStack[Len(b.sequenceStack)] = Append(@, MoveObj(b, tok)),
            !.comment = <<>>]

OnMove(b, tok) ==
  LET isWhite == ~b.expectingBlack
      top     == Len(b.sequenceStack)
  IN [sequenceStack  |-> [b.sequenceStack EXCEPT ![top] =
                            Append(@, MoveObj(b, tok))],
      comment        |-> <<>>,
      expectingBlack |-> ~b.expectingBlack,
      moveNumber     |-> IF ~isWhite THEN b.moveNumber + 1 ELSE b.moveNumber]

\* which branch of the loop body a token takes
TokKind(tok) ==
  IF IsCommentTok(tok) THEN "comment"
  ELSE IF tok = <<"(">> THEN "open"
  ELSE IF tok = <<")">> THEN "close"
  ELSE IF NumMatch(tok).ok THEN "number"
  ELSE IF IsSanTok(tok) THEN "move"
  ELSE "other"

\* one pass of the loop body that does not throw
BuildTok(b, tok) ==
  CASE TokKind(tok) = "comment" -> OnComment(b, tok)
    [] TokKind(tok) = "open"    -> OnOpen(b)
    [] TokKind(tok) = "close"   -> OnClose(b)
    [] TokKind(tok) = "number"  -> OnNumber(b, tok)
    [] TokKind(tok) = "move"    -> OnMove(b, tok)
    [] OTHER                    -> b

(***************************************************************************)
(* parsePGN: the positions (lines 250-276)                                 *)
(***************************************************************************)
Chars_FEN == <<"F", "E", "N">>

Chars_SetUp == <<"S", "e", "t", "U", "p">>

\* lines 250-253
StartFen(headers) ==
  IF /\ Chars_FEN \in DOMAIN headers
     /\ headers[Chars_FEN] # <<>>
     /\ Chars_SetUp \in DOMAIN headers
     /\ headers[Chars_SetUp] \in {<<"1">>, <<"t", "r", "u", "e">>}
  THEN Trim(headers[Chars_FEN])
  ELSE initialFen

\* a variation seeded with the board after the move it replaces
VariationSeedAfter(beforeBoard, currentBoard) == currentBoard

\* line 266: the board a variation of a node starts from
VariationSeed(beforeBoard, currentBoard) == beforeBoard

RECURSIVE processSequence(_, _)
\* lines 257-270
processSequence(seq, board) ==
  IF seq = <<>> THEN <<>>
  ELSE LET m            == Head(seq)
           beforeBoard  == board
           currentBoard == executeMove(board, m)
           activeColor  == IF m.isWhite THEN "b" ELSE "w"
           fenAfter     == boardToFen(currentBoard, activeColor)
           updatedM     ==
             [m EXCEPT !.fenAfter = fenAfter,
                       !.variations =
                          [j \in 1..Len(m.variations) |->
                             processSequence(m.variations[j],
                               VariationSeed(beforeBoard, currentBoard))]]
       IN <<updatedM>> \o processSequence(Tail(seq), currentBoard)

\* a chunk that adds a Game even with no header and no move
ChunkGamesAlways(headers, b) ==
  LET startFen == StartFen(headers)
  IN IF fenToBoardThrows(startFen) THEN <<>>
     ELSE <<[headers |-> headers,
             moves |-> processSequence(b.sequenceStack[1], fenToBoard(startFen)),
             initialFen |-> startFen]>>

\* a chunk whose main line is followed by the sequence left open on top
ChunkGamesWithOpen(headers, b) ==
  LET startFen == StartFen(headers)
      moves    == IF Len(b.sequenceStack) >= 2
                  THEN b.sequenceStack[1] \o Last(b.sequenceStack)
                  ELSE b.sequenceStack[1]
      movesWithFen == processSequence(moves, fenToBoard(startFen))
  IN IF fenToBoardThrows(startFen) THEN <<>>
     ELSE IF movesWithFen # <<>> \/ DOMAIN headers # {}
          THEN <<[headers |-> headers, moves |-> movesWithFen,
                  initialFen |-> startFen]>>
          ELSE <<>>

\* lines 250-276 for the builder b at the end of the token loop:
\* the Games the chunk adds to result
ChunkGames(headers, b) ==
  LET startFen    == StartFen(headers)
      moves       == b.sequenceStack[1]
      movesWithFen == processSequence(moves, fenToBoard(startFen))
  IN IF fenToBoardThrows(startFen) THEN <<>>
     ELSE IF movesWithFen # <<>> \/ DOMAIN headers # {}
          THEN <<[headers |-> headers, moves |-> movesWithFen,
                  initialFen |-> startFen]>>
          ELSE <<>>


(***************************************************************************)
(* parsePGN as a function of its argument                                  *)
(***************************************************************************)
RECURSIVE BuildAll(_, _)
\* the token loop of lines 200-248 over toks: the builder it ends with, or
\* thrown when a pass of the loop throws
BuildAll(b, toks) ==
  IF toks = <<>> THEN [thrown |-> FALSE, b |-> b]
  ELSE IF TokKind(Head(toks)) = "close" /\ CloseThrows(b)
       THEN [thrown |-> TRUE, b |-> b]
       ELSE BuildAll(BuildTok(b, Head(toks)), Tail(toks))

ChunkLines(raw) == HeaderLoop(SplitOn(raw, LF), NoHeaders, <<>>, TRUE)

ChunkTokens(raw) == Tokenize(ChunkLines(raw).moveText)

\* the body of the for loop, lines 172-279, for one chunk: the Games it adds
ParseChunk(raw) ==
  LET built == BuildAll(NewBuilder, ChunkTokens(raw))
  IN IF built.thrown THEN <<>>
     ELSE ChunkGames(ChunkLines(raw).headers, built.b)

RECURSIVE Flatten(_)
Flatten(ss) == IF ss = <<>> THEN <<>> ELSE Head(ss) \o Flatten(Tail(ss))

\* parsePGN(pgnText), lines 161-283
parsePGN(text) ==
  IF Trim(text) = <<>> THEN <<>>
  ELSE Flatten([i \in 1..Len(RawGames(text)) |-> ParseChunk(RawGames(text)[i])])

\* the chunks of the text before the filter: the split pieces, trimmed
Pieces(text) ==
  LET split == SplitGames(RemoveCR(text), 1)
  IN [i \in 1..Len(split) |-> Trim(split[i])]

(***************************************************************************)
(* Paths into the move tree, navigation order, export                      *)
(***************************************************************************)
\* arraysEqual(a, b), lines 289-292
arraysEqual(a, b) ==
  Len(a) = Len(b) /\ \A i \in 1..Len(a) : a[i] = b[i]

RECURSIVE flattenSeqSiblingsFirst(_, _)
\* the nodes of the sequence first, then the nodes of their variations
flattenSeqSiblingsFirst(seq, prefix) ==
  [i \in 1..Len(seq) |-> prefix \o <<i - 1>>]
    \o Flatten([i \in 1..Len(seq) |->
          Flatten([j \in 1..Len(seq[i].variations) |->
            flattenSeqSiblingsFirst(seq[i].variations[j],
                                    prefix \o <<i - 1, j - 1>>)])])

RECURSIVE flattenSeq(_, _)
\* lines 296-307: the paths of the nodes, indices from 0 as in the code; a
\* node without variations has variations = <<>> here
flattenSeq(seq, prefix) ==
  Flatten([i \in 1..Len(seq) |->
    <<prefix \o <<i - 1>>>>
      \o Flatten([j \in 1..Len(seq[i].variations) |->
            flattenSeq(seq[i].variations[j], prefix \o <<i - 1, j - 1>>)])])

\* what an indexing expression of the walk yields
Found(n) == [kind |-> "node", node |-> n]

Undefined == [kind |-> "undefined"]

Thrown == [kind |-> "throws"]

RECURSIVE WalkPath(_, _, _)
\* the loop of lines 312-315 (and 629-633) from k on, k from 0: indexing an
\* array out of range gives undefined, indexing undefined throws
WalkPath(current, path, k) ==
  IF k < Len(path) - 1
  THEN IF path[k + 1] + 1 \notin 1..Len(current) THEN Thrown
       ELSE IF current[path[k + 1] + 1].variations = <<>> THEN Thrown
       ELSE IF path[k + 2] + 1
                 \notin 1..Len(current[path[k + 1] + 1].variations)
       THEN Thrown
       ELSE WalkPath(current[path[k + 1] + 1].variations[path[k + 2] + 1],
                     path, k + 2)
  ELSE IF path = <<>> THEN Undefined
  ELSE IF path[Len(path)] + 1 \in 1..Len(current)
  THEN Found(current[path[Len(path)] + 1])
  ELSE Undefined

\* getMove(seq, path), lines 310-316
getMove(seq, path) == WalkPath(seq, path, 0)

\* findIndex(p => arraysEqual(p, path)), from 0, -1 for none
findIndex(flat, path) ==
  IF \E k \in 1..Len(flat) : arraysEqual(flat[k], path)
  THEN (CHOOSE k \in 1..Len(flat) :
          /\ arraysEqual(flat[k], path)
          /\ \A h \in 1..(k - 1) : ~arraysEqual(flat[h], path)) - 1
  ELSE -1

\* the next index with the empty path counted as position 0
NextIndexFromZero(flat, path, delta) ==
  (IF path # <<>> THEN findIndex(flat, path) ELSE 0) + delta

\* lines 670-671: curIdx + delta
NextIndex(flat, path, delta) ==
  (IF path # <<>> THEN findIndex(flat, path) ELSE -1) + delta

\* lines 669-674 of navigateMove: the path it selects in moves
navigateTarget(moves, path, delta) ==
  LET flat    == flattenSeq(moves, <<>>)
      nextIdx == NextIndex(flat, path, delta)
      clamped == IF nextIdx < -1 THEN -1
                 ELSE IF nextIdx > Len(flat) - 1 THEN Len(flat) - 1
                 ELSE nextIdx
  IN IF clamped = -1 THEN <<>> ELSE flat[clamped + 1]

RECURSIVE NatChars(_)
\* the decimal digits of a number, as template literals write it
NatChars(n) ==
  IF n < 10 THEN <<DigitChar(n)>>
  ELSE NatChars(n \div 10) \o <<DigitChar(n % 10)>>

RECURSIVE build(_, _, _)
\* the body of seq.forEach in build, lines 822-830, for node m
BuildNode(m, fullmove) ==
  (IF m.isWhite THEN NatChars(fullmove) \o <<".", " ">> ELSE <<>>)
    \o m.move \o <<" ">>
    \o (IF m.comment # <<>> THEN <<"{">> \o m.comment \o <<"}", " ">>
        ELSE <<>>)
    \o Flatten([j \in 1..Len(m.variations) |->
          <<"(">> \o build(m.variations[j], 1, 1) \o <<")", " ">>])

\* build(seq), lines 819-832, from node k on with the counter at fullmove
build(seq, k, fullmove) ==
  IF k > Len(seq) THEN <<>>
  ELSE BuildNode(seq[k], fullmove)
         \o build(seq, k + 1,
                  IF seq[k].isWhite THEN fullmove ELSE fullmove + 1)

RECURSIVE HeaderLines(_, _)
\* line 816: one line per header; the header object of the model keeps no
\* insertion order, the lines are written in one fixed order of the keys
HeaderLines(headers, keys) ==
  IF keys = {} THEN <<>>
  ELSE LET k == CHOOSE x \in keys : TRUE
       IN <<"[">> \o k \o <<" ", "\"">> \o headers[k] \o <<"\"", "]", LF>>
            \o HeaderLines(headers, keys \ {k})

\* the text exportPGN copies to the clipboard for a game, lines 815-834
exportPGN(game) ==
  HeaderLines(game.headers, DOMAIN game.headers)
    \o <<LF>> \o build(game.moves, 1, 1)

(***************************************************************************)
(* State                                                                   *)
(***************************************************************************)
VARIABLES
  pc,             \* where the program is
  pgnText,        \* parsePGN: the argument
  rawGames,       \* parsePGN: the chunks kept by the filter
  gi,             \* parsePGN: how many chunks the for loop has taken
  headers,        \* chunk: the header object
  rawTokens,      \* chunk: the tokens of the move text
  ti,             \* chunk: how many tokens the token loop has taken
  sequenceStack,  \* chunk: the open sequences, the main line first
  comment,        \* chunk: the pending comment
  expectingBlack, \* chunk: the next move is Black's
  moveNumber,     \* chunk: the fullmove counter
  result,         \* parsePGN: the Games so far
  board,          \* executor: the board of the last call's result
  beforeBoard,    \* executor: the board the last call was given
  moveObj,        \* executor: the move of the last call
  applied,        \* executor: the number of calls so far
  fen,            \* executor: boardToFen of board, <<>> before it is taken
  shown,          \* executor: fenToBoard of fen
  argument,       \* executor: the array the last call was given, after it
  text,           \* App: the pgnText state
  timer,          \* App: <<t>> while a parse of t is scheduled, else <<>>
  games,          \* App: the games state
  currentGameIndex, \* App: index into games, from 0
  currentPath,    \* App: the path of the selected node, <<>> at the start
  bookmarks       \* App: the bookmarks, the latest first

parserVars ==
  <<pc, pgnText, rawGames, gi, headers, rawTokens, ti, sequenceStack,
    comment, expectingBlack, moveNumber, result>>

engineVars == <<board, beforeBoard, moveObj, applied, fen, shown, argument>>

uiVars ==
  <<text, timer, games, currentGameIndex, currentPath, bookmarks>>

vars == <<parserVars, engineVars, uiVars>>

Builder ==
  [sequenceStack  |-> sequenceStack,
   comment        |-> comment,
   expectingBlack |-> expectingBlack,
   moveNumber     |-> moveNumber]

SetBuilder(b) ==
  /\ sequenceStack' = b.sequenceStack
  /\ comment' = b.comment
  /\ expectingBlack' = b.expectingBlack
  /\ moveNumber' = b.moveNumber

NoMove == [san |-> <<>>, isWhite |-> FALSE]

EngineIdle ==
  /\ board = EmptyBoard
  /\ beforeBoard = EmptyBoard
  /\ moveObj = NoMove
  /\ applied = 0
  /\ fen = <<>>
  /\ shown = EmptyBoard
  /\ argument = EmptyBoard

\* useState of lines 542-546, useRef of line 558
UIIdle ==
  /\ text = <<>>
  /\ timer = <<>>
  /\ games = <<>>
  /\ currentGameIndex = 0
  /\ currentPath = <<>>
  /\ bookmarks = <<>>

ParserIdle ==
  /\ pgnText = <<>>
  /\ rawGames = <<>>
  /\ gi = 0
  /\ headers = NoHeaders
  /\ rawTokens = <<>>
  /\ ti = 0
  /\ sequenceStack = NewBuilder.sequenceStack
  /\ comment = NewBuilder.comment
  /\ expectingBlack = NewBuilder.expectingBlack
  /\ moveNumber = NewBuilder.moveNumber
  /\ result = <<>>

(***************************************************************************)
(* The executor, called on its own                                         *)
(***************************************************************************)
MaxApplied == 1

EngineSans ==
  {<<"O", "-", "O">>, <<"O", "-", "O", "-", "O">>, <<"0", "-", "0">>,
   <<"0", "-", "0", "-", "0">>, <<"e", "4">>, <<"e", "5">>, <<"d", "5">>,
   <<"e", "x", "d", "5">>, <<"e", "x", "d", "6">>, <<"e", "8", "=", "Q">>,
   <<"e", "x", "d", "8", "=", "N", "+">>, <<"e", "1", "=", "Q">>,
   <<"N", "f", "3">>, <<"N", "c", "6">>, <<"N", "e", "5">>,
   <<"N", "x", "e", "5">>, <<"B", "b", "5">>, <<"B", "c", "4">>,
   <<"B", "x", "f", "7", "+">>, <<"R", "d", "1">>, <<"R", "a", "d", "1">>,
   <<"R", "a", "1">>, <<"R", "h", "8">>, <<"Q", "d", "1">>,
   <<"Q", "h", "5">>, <<"K", "e", "2">>, <<"K", "e", "1">>,
   <<"1", "-", "0">>}

EngineMoves == [san : EngineSans \cup {<<>>}, isWhite : BOOLEAN]

BaseFens ==
  {<<"r", "n", "b", "q", "k", "b", "n", "r", "/", "p", "p", "p", "p", "p",
     "p", "p", "p", "/", "8", "/", "8", "/", "8", "/", "8", "/", "P", "P",
     "P", "P", "P", "P", "P", "P", "/", "R", "N", "B", "Q", "K", "B", "N",
     "R">>,
   <<"r", "3", "k", "2", "r", "/", "8", "/", "8", "/", "8", "/", "8", "/",
     "8", "/", "8", "/", "R", "3", "K", "2", "R">>,
   <<"r", "1", "b", "q", "k", "2", "r", "/", "p", "p", "p", "p", "1", "p",
     "p", "p", "/", "2", "n", "2", "n", "2", "/", "2", "b", "1", "p", "3",
     "/", "2", "B", "1", "P", "3", "/", "2", "N", "2", "N", "2", "/", "P",
     "P", "P", "P", "1", "P", "P", "P", "/", "R", "1", "B", "Q", "K", "2",
     "R">>,
   <<"3", "r", "4", "/", "4", "P", "3", "/", "8", "/", "3", "p", "P", "3",
     "/", "8", "/", "8", "/", "4", "p", "3", "/", "3", "R", "4">>,
   <<"8", "/", "8", "/", "8", "/", "3", "Q", "4", "/", "8", "/", "2", "B",
     "5", "/", "8", "/", "R", "N", "5", "R">>,
   <<"r", "n", "b", "q", "k", "b", "n", "r", "/", "p", "p", "p", "p", "1",
     "p", "p", "p", "/", "8", "/", "4", "p", "3", "/", "4", "P", "3", "/",
     "8", "/", "P", "P", "P", "P", "1", "P", "P", "P", "/", "R", "N", "B",
     "Q", "K", "B", "N", "R">>}

InitEngine ==
  /\ pc = "engine"
  /\ ParserIdle
  /\ board \in {fenToBoard(f) : f \in BaseFens}
  /\ beforeBoard = EmptyBoard
  /\ moveObj = NoMove
  /\ applied = 0
  /\ fen = <<>>
  /\ shown = EmptyBoard
  /\ argument = EmptyBoard
  /\ UIIdle

\* ChessUtils.executeMove(board, m)
ExecuteMove ==
  /\ pc = "engine"
  /\ applied < MaxApplied
  /\ \E m \in EngineMoves :
       /\ moveObj' = m
       /\ beforeBoard' = board
       /\ board' = executeMove(board, m)
       /\ argument' = ArgumentAfter(board, m)
  /\ applied' = applied + 1
  /\ fen' = <<>>
  /\ shown' = EmptyBoard
  /\ UNCHANGED <<parserVars, uiVars>>

\* ChessUtils.fenToBoard(ChessUtils.boardToFen(board, active))
TakeFen ==
  /\ pc = "engine"
  /\ fen = <<>>
  /\ \E active \in {"w", "b"} : fen' = boardToFen(board, active)
  /\ shown' = fenToBoard(fen')
  /\ UNCHANGED <<board, beforeBoard, moveObj, applied, argument>>
  /\ UNCHANGED <<parserVars, uiVars>>

NextEngine == ExecuteMove \/ TakeFen

SpecEngine == InitEngine /\ [][NextEngine]_vars


(***************************************************************************)
(* parsePGN as a program: one action per step of its loops                 *)
(***************************************************************************)
\* lines 162-169
ParseStart ==
  /\ pc = "call"
  /\ IF Trim(pgnText) = <<>>
     THEN pc' = "return" /\ rawGames' = <<>>
     ELSE pc' = "chunk" /\ rawGames' = RawGames(pgnText)
  /\ UNCHANGED <<pgnText, gi, headers, rawTokens, ti, sequenceStack, comment,
                 expectingBlack, moveNumber, result>>
  /\ UNCHANGED <<engineVars, uiVars>>

\* lines 171-198: the next chunk, its header loop and its tokens
BeginChunk ==
  /\ pc = "chunk"
  /\ gi < Len(rawGames)
  /\ LET hl == HeaderLoop(SplitOn(rawGames[gi + 1], LF), NoHeaders, <<>>, TRUE)
     IN /\ headers' = hl.headers
        /\ rawTokens' = Tokenize(hl.moveText)
  /\ gi' = gi + 1
  /\ ti' = 0
  /\ SetBuilder(NewBuilder)
  /\ pc' = "token"
  /\ UNCHANGED <<pgnText, rawGames, result>>
  /\ UNCHANGED <<engineVars, uiVars>>

\* the token the loop of line 200 takes next
Tok == rawTokens[ti + 1]

TokenStep(kind) ==
  /\ pc = "token"
  /\ ti < Len(rawTokens)
  /\ TokKind(Tok) = kind
  /\ ti' = ti + 1
  /\ UNCHANGED <<pc, pgnText, rawGames, gi, headers, rawTokens, result>>
  /\ UNCHANGED <<engineVars, uiVars>>

\* lines 204-207
TokComment == TokenStep("comment") /\ SetBuilder(OnComment(Builder, Tok))

\* lines 209-212
TokOpen == TokenStep("open") /\ SetBuilder(OnOpen(Builder))

\* lines 214-223, a variation being open
TokClose ==
  /\ ~CloseThrows(Builder)
  /\ TokenStep("close")
  /\ SetBuilder(OnClose(Builder))

\* lines 225-230
TokNumber == TokenStep("number") /\ SetBuilder(OnNumber(Builder, Tok))

\* lines 232-247
TokMove == TokenStep("move") /\ SetBuilder(OnMove(Builder, Tok))

\* a token no branch takes: the loop goes on
TokOther == TokenStep("other") /\ SetBuilder(Builder)

\* the locals of a chunk go out of scope
DropLocals ==
  /\ headers' = NoHeaders
  /\ rawTokens' = <<>>
  /\ ti' = 0
  /\ SetBuilder(NewBuilder)

\* the throw not caught: it leaves parsePGN for the caller
TokCloseThrowsAbort ==
  /\ pc = "token"
  /\ ti < Len(rawTokens)
  /\ TokKind(Tok) = "close"
  /\ CloseThrows(Builder)
  /\ pc' = "raised"
  /\ DropLocals
  /\ UNCHANGED <<pgnText, rawGames, gi, result>>
  /\ UNCHANGED <<engineVars, uiVars>>

\* lines 214-217 with only the main line on the stack: the throw is caught at
\* line 277, the chunk adds nothing and the for loop goes on
TokCloseThrows ==
  /\ pc = "token"
  /\ ti < Len(rawTokens)
  /\ TokKind(Tok) = "close"
  /\ CloseThrows(Builder)
  /\ pc' = "chunk"
  /\ DropLocals
  /\ UNCHANGED <<pgnText, rawGames, gi, result>>
  /\ UNCHANGED <<engineVars, uiVars>>

\* lines 250-276: the tokens are used up
EndChunk ==
  /\ pc = "token"
  /\ ti = Len(rawTokens)
  /\ result' = result \o ChunkGames(headers, Builder)
  /\ pc' = "chunk"
  /\ DropLocals
  /\ UNCHANGED <<pgnText, rawGames, gi>>
  /\ UNCHANGED <<engineVars, uiVars>>

\* line 282
Return ==
  /\ pc = "chunk"
  /\ gi = Len(rawGames)
  /\ pc' = "return"
  /\ UNCHANGED <<pgnText, rawGames, gi, headers, rawTokens, ti, sequenceStack,
                 comment, expectingBlack, moveNumber, result>>
  /\ UNCHANGED <<engineVars, uiVars>>

Next ==
  \/ ParseStart
  \/ BeginChunk
  \/ TokComment
  \/ TokOpen
  \/ TokClose
  \/ TokCloseThrows
  \/ TokNumber
  \/ TokMove
  \/ TokOther
  \/ EndChunk
  \/ Return


(***************************************************************************)
(* The texts parsePGN is called with                                       *)
(***************************************************************************)
MaxTokens == 3

MaxLines == 3

\* [Event ""] and a line feed: the header line every move text below follows
EventLine == <<"[", "E", "v", "e", "n", "t", " ", "\"", "\"", "]", "\n">>

\* {a} {b} ( ) 1. 1... 2. e4 e5 *
Words ==
  {<<"{", "a", "}">>,
   <<"{", "b", "}">>,
   <<"(">>,
   <<")">>,
   <<"1", ".">>,
   <<"1", ".", ".", ".">>,
   <<"2", ".">>,
   <<"e", "4">>,
   <<"e", "5">>,
   <<"*">>}

\* a header line and up to MaxTokens words, one space between two words
MoveTexts ==
  {EventLine \o Join(w, <<" ">>) :
     w \in UNION {[1..n -> Words] : n \in 0..MaxTokens}}

\* [Event "A"]   [Event "B   [W "w"]   1. e4   )
Lines ==
  {<<"[", "E", "v", "e", "n", "t", " ", "\"", "A", "\"", "]">>,
   <<"[", "E", "v", "e", "n", "t", " ", "\"", "B">>,
   <<"[", "W", " ", "\"", "w", "\"", "]">>,
   <<"1", ".", " ", "e", "4">>,
   <<")">>}

RECURSIVE JoinLines(_, _)
\* the lines of ls, seps[i] between line i and line i + 1
JoinLines(ls, seps) ==
  IF Len(ls) <= 1 THEN Join(ls, <<>>)
  ELSE ls[1] \o seps[1] \o JoinLines(Tail(ls), Tail(seps))

\* up to MaxLines lines, one line feed or a blank line between two lines
GameTexts ==
  UNION {{JoinLines(ls, seps) :
            ls \in [1..n -> Lines],
            seps \in [1..(n - 1) -> {<<LF>>, <<LF, LF>>}]} :
         n \in 1..MaxLines}

\* 1. e4 e5 (1...c5) 2. Nf3
SampleVariation ==
  <<"1", ".", " ", "e", "4", " ", "e", "5", " ", "(", "1", ".", ".", ".",
    "c", "5", ")", " ", "2", ".", " ", "N", "f", "3">>

\* 1. e4 {a} {b} e5
SampleComments ==
  <<"1", ".", " ", "e", "4", " ", "{", "a", "}", " ", "{", "b", "}", " ",
    "e", "5">>

\* 1. e4 e5 2. Nf3 Nc6 3. Bb5 a6 {This opening is called the Ruy Lopez.} 4. Ba4 Nf6 5. O-O Be7
SampleRuyLopez ==
  <<"1", ".", " ", "e", "4", " ", "e", "5", " ", "2", ".", " ", "N", "f",
    "3", " ", "N", "c", "6", " ", "3", ".", " ", "B", "b", "5", " ", "a",
    "6", " ", "{", "T", "h", "i", "s", " ", "o", "p", "e", "n", "i", "n",
    "g", " ", "i", "s", " ", "c", "a", "l", "l", "e", "d", " ", "t", "h",
    "e", " ", "R", "u", "y", " ", "L", "o", "p", "e", "z", ".", "}", " ",
    "4", ".", " ", "B", "a", "4", " ", "N", "f", "6", " ", "5", ".", " ",
    "O", "-", "O", " ", "B", "e", "7">>

\* 1. Ne5 e5
SampleUnresolved ==
  <<"1", ".", " ", "N", "e", "5", " ", "e", "5">>

\* 1. e4 e5 (1... c5 (1... d5) 2. Nf3) (1... d6) 2. Nc3
SampleNested ==
  <<"1", ".", " ", "e", "4", " ", "e", "5", " ", "(", "1", ".", ".", ".",
    " ", "c", "5", " ", "(", "1", ".", ".", ".", " ", "d", "5", ")", " ",
    "2", ".", " ", "N", "f", "3", ")", " ", "(", "1", ".", ".", ".", " ",
    "d", "6", ")", " ", "2", ".", " ", "N", "c", "3">>

\* 1. e4 e5 (1... c5 (1... d5) 2. Nc3 (2. Nf3
SampleUnclosed ==
  <<"1", ".", " ", "e", "4", " ", "e", "5", " ", "(", "1", ".", ".", ".",
    " ", "c", "5", " ", "(", "1", ".", ".", ".", " ", "d", "5", ")", " ",
    "2", ".", " ", "N", "c", "3", " ", "(", "2", ".", " ", "N", "f", "3">>

\* [Event "A"] / 1. e4 / [W "w"] / e5
SampleLateHeader ==
  <<"[", "E", "v", "e", "n", "t", " ", "\"", "A", "\"", "]", "\n", "1", ".",
    " ", "e", "4", "\n", "[", "W", " ", "\"", "w", "\"", "]", "\n", "e",
    "5">>

\* 1. (e4
SampleOpenOnly ==
  <<"1", ".", " ", "(", "e", "4">>

\* 1. e4 (1. d4 d5) e5
SampleAfterVariation ==
  <<"1", ".", " ", "e", "4", " ", "(", "1", ".", " ", "d", "4", " ", "d",
    "5", ")", " ", "e", "5">>

Samples ==
  {SampleVariation, SampleComments, SampleRuyLopez, SampleUnresolved,
   SampleNested, SampleUnclosed, SampleLateHeader, SampleOpenOnly,
   SampleAfterVariation}

Init ==
  /\ pc = "call"
  /\ pgnText \in MoveTexts \cup GameTexts \cup Samples
  /\ rawGames = <<>>
  /\ gi = 0
  /\ headers = NoHeaders
  /\ rawTokens = <<>>
  /\ ti = 0
  /\ sequenceStack = NewBuilder.sequenceStack
  /\ comment = NewBuilder.comment
  /\ expectingBlack = NewBuilder.expectingBlack
  /\ moveNumber = NewBuilder.moveNumber
  /\ result = <<>>
  /\ EngineIdle
  /\ UIIdle

Spec == Init /\ [][Next]_vars


(***************************************************************************)
(* Properties                                                              *)
(***************************************************************************)
PieceLetters == {"K", "Q", "R", "B", "N", "P", "k", "q", "r", "b", "n", "p"}

CastlingSans == {Chars_OO, Chars_00, Chars_OOO, Chars_000}

ActiveAfter(m) == IF m.isWhite THEN "b" ELSE "w"

RECURSIVE SeededBefore(_, _)
\* every variation of every node of seq, at any depth, starts from the board
\* before that node's move; seed is the board before the first node of seq
SeededBefore(seq, seed) ==
  \A i \in 1..Len(seq) :
    LET pre == IF i = 1 THEN seed ELSE fenToBoard(seq[i - 1].fenAfter)
    IN \A j \in 1..Len(seq[i].variations) :
         LET v == seq[i].variations[j]
         IN /\ v # <<>> =>
                 v[1].fenAfter = boardToFen(executeMove(pre, v[1]),
                                            ActiveAfter(v[1]))
            /\ SeededBefore(v, pre)

\* rnbqkbnr/pp1ppppp/8/2p5/4P3/8/PPPP1PPP/RNBQKBNR w KQkq - 0 1
FenAfterE4C5 ==
  <<"r", "n", "b", "q", "k", "b", "n", "r", "/", "p", "p", "1", "p", "p",
    "p", "p", "p", "/", "8", "/", "2", "p", "5", "/", "4", "P", "3", "/",
    "8", "/", "P", "P", "P", "P", "1", "P", "P", "P", "/", "R", "N", "B",
    "Q", "K", "B", "N", "R", " ", "w", " ", "K", "Q", "k", "q", " ", "-",
    " ", "0", " ", "1">>

\* C1: the first node of a variation of a node n, at any depth, holds the
\* position of its move applied to the board before n's move; and
\* 1. e4 e5 (1...c5) 2. Nf3 gives a main line e4 e5 Nf3 whose e5 carries the
\* one variation c5, with the position of e4 followed by c5.
C1_VariationSeeding ==
  /\ \A k \in 1..Len(result) :
       SeededBefore(result[k].moves, fenToBoard(result[k].initialFen))
  /\ (pc = "return" /\ pgnText = SampleVariation) =>
       /\ Len(result) = 1
       /\ Len(result[1].moves) = 3
       /\ result[1].moves[2].san = <<"e", "5">>
       /\ Len(result[1].moves[2].variations) = 1
       /\ Len(result[1].moves[2].variations[1]) = 1
       /\ result[1].moves[2].variations[1][1].san = <<"c", "5">>
       /\ result[1].moves[2].variations[1][1].fenAfter = FenAfterE4C5

C1_Witness ==
  /\ pc = "return"
  /\ pgnText = SampleVariation
  /\ Len(result) = 1
  /\ Len(result[1].moves) >= 2
  /\ result[1].moves[2].variations # <<>>
  /\ result[1].moves[2].variations[1] # <<>>

IsMoveTokAt(k) == TokKind(rawTokens[k]) = "move"

\* C2: a comment token between two move tokens is the comment of the node of
\* the move token that follows it (stated when that node has just been
\* made: it is the last node of the sequence on top of the stack).
C2_CommentAttachment ==
  (pc = "token" /\ ti >= 1 /\ IsMoveTokAt(ti)) =>
    \A k \in 1..(ti - 1) :
      ( /\ IsCommentTok(rawTokens[k])
        /\ \E q \in 1..(k - 1) : IsMoveTokAt(q)
        /\ \A q \in (k + 1)..(ti - 1) : ~IsMoveTokAt(q) )
      => Last(Last(sequenceStack)).comment = CommentText(rawTokens[k])

\* the token of the last call matches the SAN pattern and no square holds a
\* piece of its type and colour that passes the source file and rank and the
\* pawn-action or geometry filter
NoCandidate(b, m, base, isWhite) ==
  /\ m.ok
  /\ \A r \in Idx : \A c \in Idx :
       ~ ( /\ IsPotential(b, m, base,
                          IF isWhite THEN toUpperCase(base)
                          ELSE toLowerCase(base),
                          isWhite, r, c,
                          8 - DigitVal(m.targetRank), FileIdx(m.targetFile))
           /\ GeometryOk(b, base, r, c,
                         8 - DigitVal(m.targetRank), FileIdx(m.targetFile)) )

NoCandidateFor(b, mo, m) ==
  NoCandidate(b, m, IF m.pieceType # None THEN m.pieceType[1] ELSE "P",
              mo.isWhite)

\* C3: executeMove returns the board it was given when no piece of the
\* token's type and colour passes the source and geometry filters.
C3_NoCandidateUnchanged ==
  ( /\ pc = "engine"
    /\ applied >= 1
    /\ moveObj.san \notin CastlingSans
    /\ NoCandidateFor(beforeBoard, moveObj, SanMatch(moveObj.san)) )
  => board = beforeBoard

\* C4: a close-variation token with only the main line on the stack is a
\* no-op: the loop goes on to the next token with the main line, the
\* counter, the flag and the pending comment as they were.
C4_UnbalancedCloseNoOp ==
  [][ ( /\ pc = "token"
        /\ ti < Len(rawTokens)
        /\ rawTokens[ti + 1] = <<")">>
        /\ Len(sequenceStack) = 1 )
      => ( /\ pc' = "token"
           /\ ti' = ti + 1
           /\ UNCHANGED <<sequenceStack, moveNumber, expectingBlack,
                          comment, result>> ) ]_vars

ChunkThrows(raw) == BuildAll(NewBuilder, ChunkTokens(raw)).thrown

\* the call has returned or has a step to take
CanStep ==
  \/ pc = "call"
  \/ pc = "chunk" /\ gi <= Len(rawGames)
  \/ /\ pc = "token"
     /\ ti <= Len(rawTokens)
     /\ ti < Len(rawTokens) =>
          TokKind(Tok) \in {"comment", "open", "close", "number", "move", "other"}
  \/ pc = "return"

\* every step takes the call nearer to its return: to the next chunk, to
\* the next token of the chunk, or out of the chunk's token loop
StepsOn ==
  \/ pc = "call"
  \/ pc' = "return"
  \/ gi' > gi
  \/ gi' = gi /\ pc = "token" /\ pc' = "token" /\ ti' > ti
  \/ gi' = gi /\ pc = "token" /\ pc' = "chunk"

\* C5: parsePGN never raises and always comes to its return, and what it
\* returns is, chunk by chunk in the order of the text, the Games each chunk
\* gives when it is the whole text: a chunk that throws gives none and takes
\* none away.
C5_ChunkIsolation ==
  /\ [](pc # "raised" /\ CanStep)
  /\ [][StepsOn]_vars
  /\ [](pc = "return" => result = Flatten([i \in 1..Len(Pieces(pgnText)) |->
                                     parsePGN(Pieces(pgnText)[i])]))

C5_Witness ==
  /\ pc = "return"
  /\ Len(result) >= 1
  /\ \E i \in 1..Len(rawGames) : ChunkThrows(rawGames[i])

HasHeaderLine(raw) ==
  \E i \in 1..Len(SplitOn(raw, LF)) :
    HeaderMatch(Trim(SplitOn(raw, LF)[i])).ok

NoMoveTok(raw) ==
  \A i \in 1..Len(ChunkTokens(raw)) : TokKind(ChunkTokens(raw)[i]) # "move"

\* C6: a chunk with a well-formed header line and no move gives a Game with
\* its headers and no moves; a chunk with neither gives no Game.
C6_HeaderOnlyChunk ==
  pc = "return" =>
    /\ \A i \in 1..Len(Pieces(pgnText)) :
         LET p == Pieces(pgnText)[i]
         IN (p # <<>> /\ HasHeaderLine(p) /\ NoMoveTok(p)) =>
              \E k \in 1..Len(result) :
                /\ result[k].moves = <<>>
                /\ result[k].headers = ChunkLines(p).headers
    /\ Len(result) <= Cardinality({i \in 1..Len(Pieces(pgnText)) :
                         \/ HasHeaderLine(Pieces(pgnText)[i])
                         \/ ~NoMoveTok(Pieces(pgnText)[i])})

\* a line that opens a header bracket and never closes it
Unterminated(line) ==
  line # <<>> /\ line[1] = "[" /\ \A i \in 1..Len(line) : line[i] # "]"

HasUnterminated(raw) ==
  \E i \in 1..Len(SplitOn(raw, LF)) : Unterminated(Trim(SplitOn(raw, LF)[i]))

\* every bracket line is a header, every token is taken by a branch of the
\* loop, nothing throws and the chunk gives its Game
WellFormedChunk(raw) ==
  /\ \A i \in 1..Len(SplitOn(raw, LF)) :
       LET t == Trim(SplitOn(raw, LF)[i])
       IN (t # <<>> /\ t[1] = "[") => HeaderMatch(t).ok
  /\ \A i \in 1..Len(ChunkTokens(raw)) :
       TokKind(ChunkTokens(raw)[i]) # "other"
  /\ ~ChunkThrows(raw)
  /\ Len(parsePGN(raw)) = 1

TwoChunks(p) ==
  /\ pc = "return"
  /\ Len(p) = 2
  /\ HasUnterminated(p[1])
  /\ WellFormedChunk(p[2])

\* C7 as stated: a first chunk with an unterminated header line and a
\* well-formed second chunk give one Game, the second chunk's.
C7_AnyBrokenFirstChunk ==
  TwoChunks(Pieces(pgnText)) =>
    /\ Len(result) = 1
    /\ result = parsePGN(Pieces(pgnText)[2])

\* C7 amended: so it is when the first chunk has, besides the unterminated
\* header line, no well-formed header line and no move token.
C7_TolerantRecovery ==
  ( /\ TwoChunks(Pieces(pgnText))
    /\ ~HasHeaderLine(Pieces(pgnText)[1])
    /\ NoMoveTok(Pieces(pgnText)[1]) )
  => /\ Len(result) = 1
     /\ result[1].headers = ChunkLines(Pieces(pgnText)[2]).headers
     /\ result = parsePGN(Pieces(pgnText)[2])

C7_Witness ==
  /\ TwoChunks(Pieces(pgnText))
  /\ ~HasHeaderLine(Pieces(pgnText)[1])
  /\ NoMoveTok(Pieces(pgnText)[1])
  /\ Len(result) = 1
  /\ result[1].headers # NoHeaders

ValidCells(b) ==
  \A r \in Idx : \A c \in Idx : b[r][c] \in PieceLetters \cup {Null}

\* C8: fenToBoard(boardToFen(board, c)) is board, cell for cell, for either
\* active colour c.
C8_FenRoundTrip ==
  (pc = "engine" /\ fen # <<>> /\ ValidCells(board)) => shown = board

C8_Witness ==
  /\ pc = "engine"
  /\ fen # <<>>
  /\ applied = 1
  /\ board # beforeBoard
  /\ \E r \in Idx : /\ board[r][0] = Null
                    /\ board[r][7] = Null
                    /\ \E c \in 1..5 : board[r][c] # Null /\ board[r][c + 1] = Null
  /\ SplitOn(fen, " ")[2] = <<"b">>

CastledRow(isWhite) == IF isWhite THEN 7 ELSE 0

\* C9: a castling token puts king and rook on their fixed squares of the
\* mover's back rank, empties the king's and the rook's home squares and
\* leaves every other square as it was.
C9_CastlingSquares ==
  (pc = "engine" /\ applied >= 1 /\ moveObj.san \in CastlingSans) =>
    LET row  == CastledRow(moveObj.isWhite)
        K    == IF moveObj.isWhite THEN "K" ELSE "k"
        R    == IF moveObj.isWhite THEN "R" ELSE "r"
        king == moveObj.san \in {Chars_OO, Chars_00}
        set  == IF king THEN {4, 5, 6, 7} ELSE {0, 2, 3, 4}
    IN /\ board[row][IF king THEN 6 ELSE 2] = K
       /\ board[row][IF king THEN 5 ELSE 3] = R
       /\ board[row][4] = Null
       /\ board[row][IF king THEN 7 ELSE 0] = Null
       /\ \A r \in Idx : \A c \in Idx :
            (r # row \/ c \notin set) => board[r][c] = beforeBoard[r][c]

C9_Witness ==
  /\ pc = "engine"
  /\ applied = 1
  /\ moveObj.san = Chars_OOO
  /\ ~moveObj.isWhite
  /\ beforeBoard[0][0] = "r"
  /\ beforeBoard[0][4] = "k"
  /\ board[0][2] = "k"
  /\ board[0][0] = Null

OneChunk ==
  /\ pc = "return"
  /\ Len(Pieces(pgnText)) = 1
  /\ Len(result) = 1

TextTokens == ChunkTokens(Pieces(pgnText)[1])

MoveToks(toks) == SelectSeq(toks, LAMBDA t : TokKind(t) = "move")

NoParens(toks) ==
  \A i \in 1..Len(toks) : TokKind(toks[i]) \notin {"open", "close"}

\* every move-number token agrees with the moves before it: after k moves
\* the fullmove number is 1 + k \div 2 and Black is to move iff k is odd
NumbersAgree(toks) ==
  \A i \in 1..Len(toks) :
    TokKind(toks[i]) = "number" =>
      LET k == Len(MoveToks(SubSeq(toks, 1, i - 1)))
      IN /\ parseInt(NumMatch(toks[i]).digits) = 1 + (k \div 2)
         /\ NumMatch(toks[i]).dots = (k % 2 = 1)

InInputOrder(line, toks) ==
  /\ Len(line) = Len(MoveToks(toks))
  /\ \A i \in 1..Len(line) : line[i].san = MoveToks(toks)[i]

Alternating(line) ==
  /\ \A i \in 1..Len(line) : line[i].isWhite = (i % 2 = 1)
  /\ \A i \in 1..(Len(line) - 1) : line[i].number <= line[i + 1].number

\* C10 as stated: N move tokens and no variations give a main line of the N
\* nodes in input order, White and Black in turn from White, the move
\* numbers never decreasing.
C10_AnyNumbering ==
  (OneChunk /\ NoParens(TextTokens)) =>
    /\ InInputOrder(result[1].moves, TextTokens)
    /\ Alternating(result[1].moves)

\* C10 amended: the N nodes in input order in any case; White and Black in
\* turn from White with the move numbers never decreasing when every
\* move-number token agrees with the moves before it.
C10_PlyOrdering ==
  (OneChunk /\ NoParens(TextTokens)) =>
    /\ InInputOrder(result[1].moves, TextTokens)
    /\ NumbersAgree(TextTokens) => Alternating(result[1].moves)

C10_Witness ==
  /\ OneChunk
  /\ NoParens(TextTokens)
  /\ NumbersAgree(TextTokens)
  /\ Len(MoveToks(TextTokens)) = 2
  /\ \E i \in 1..Len(TextTokens) : NumMatch(TextTokens[i]).ok
                                     /\ NumMatch(TextTokens[i]).dots
  /\ result[1].moves[2].number = 3


\* the call on the Ruy Lopez sample has returned its one Game
RuyLopezParsed ==
  /\ pc = "return"
  /\ pgnText = SampleRuyLopez
  /\ Len(result) = 1

RuyLopezComment ==
  <<"T", "h", "i", "s", " ", "o", "p", "e", "n", "i", "n", "g", " ", "i",
    "s", " ", "c", "a", "l", "l", "e", "d", " ", "t", "h", "e", " ", "R",
    "u", "y", " ", "L", "o", "p", "e", "z", ".">>

\* C11 as stated: the main line of the Ruy Lopez sample has 9 nodes.
C11_NineNodes == RuyLopezParsed => Len(result[1].moves) = 9

\* C11 amended: the Ruy Lopez sample is parsed to one Game whose main line
\* has the 10 nodes of its 10 move tokens, Be7 the last.
C11_TenNodes ==
  (pc = "return" /\ pgnText = SampleRuyLopez) =>
    /\ Len(result) = 1
    /\ Len(result[1].moves) = 10
    /\ \A i \in 1..10 : result[1].moves[i].isWhite = (i % 2 = 1)

C11_Witness ==
  /\ RuyLopezParsed
  /\ Len(result[1].moves) >= 10
  /\ result[1].moves[10].san = <<"B", "e", "7">>

\* C12 as stated: a6 is the fifth node of the main line of the Ruy Lopez
\* sample and carries the comment.
C12_FifthNodeComment ==
  RuyLopezParsed =>
    /\ Len(result[1].moves) >= 5
    /\ result[1].moves[5].san = <<"a", "6">>
    /\ result[1].moves[5].comment = RuyLopezComment

\* C12 amended: a6 is the sixth node (the fifth is Bb5) and has no comment;
\* the comment, which comes after a6 in the text, is carried by the seventh
\* node Ba4 and by no other node.
C12_CommentOnNextMove ==
  RuyLopezParsed =>
    /\ Len(result[1].moves) >= 7
    /\ result[1].moves[5].san = <<"B", "b", "5">>
    /\ result[1].moves[6].san = <<"a", "6">>
    /\ ~result[1].moves[6].isWhite
    /\ result[1].moves[7].san = <<"B", "a", "4">>
    /\ \A i \in 1..Len(result[1].moves) :
         result[1].moves[i].comment =
           IF i = 7 THEN RuyLopezComment ELSE <<>>

C12_Witness ==
  /\ RuyLopezParsed
  /\ Len(result[1].moves) >= 7
  /\ result[1].moves[7].comment = RuyLopezComment

\* r1bqkb1r/1ppp1ppp/p1n2n2/4p3/B3P3/5N2/PPPP1PPP/RNBQ1RK1 b KQkq - 0 1
FenAfterRuyLopezCastling ==
  <<"r", "1", "b", "q", "k", "b", "1", "r", "/", "1", "p", "p", "p", "1",
    "p", "p", "p", "/", "p", "1", "n", "2", "n", "2", "/", "4", "p", "3",
    "/", "B", "3", "P", "3", "/", "5", "N", "2", "/", "P", "P", "P", "P",
    "1", "P", "P", "P", "/", "R", "N", "B", "Q", "1", "R", "K", "1", " ",
    "b", " ", "K", "Q", "k", "q", " ", "-", " ", "0", " ", "1">>

\* C13: the ninth node of the main line of the Ruy Lopez sample is White's
\* O-O, and its position is the board after castling (king g1, rook f1, e1
\* and h1 empty) with Black to move.
C13_CastledPosition ==
  RuyLopezParsed =>
    /\ Len(result[1].moves) >= 9
    /\ result[1].moves[9].san = Chars_OO
    /\ result[1].moves[9].isWhite
    /\ result[1].moves[9].fenAfter = FenAfterRuyLopezCastling
    /\ fenToBoard(result[1].moves[9].fenAfter)[7][6] = "K"
    /\ fenToBoard(result[1].moves[9].fenAfter)[7][5] = "R"
    /\ fenToBoard(result[1].moves[9].fenAfter)[7][4] = Null
    /\ fenToBoard(result[1].moves[9].fenAfter)[7][7] = Null

C13_Witness ==
  /\ RuyLopezParsed
  /\ Len(result[1].moves) >= 9
  /\ result[1].moves[9].san = Chars_OO
  /\ result[1].moves[8].fenAfter # result[1].moves[9].fenAfter


\* the placement field of a position string
Placement(f) == SplitOn(f, " ")[1]

\* the position before node i of seq, seq starting from the position start
PositionBefore(seq, start, i) == IF i = 1 THEN start ELSE seq[i - 1].fenAfter

\* node i of seq has a notation no piece on the board before it can play
Unresolvable(seq, start, i) ==
  /\ seq[i].san \notin CastlingSans
  /\ NoCandidateFor(fenToBoard(PositionBefore(seq, start, i)), seq[i],
                    SanMatch(seq[i].san))

\* C14: a main-line node whose notation cannot be resolved is in the tree
\* with the placement of the position before it (its predecessor's, or the
\* initial position for a first node).
C14_UnresolvedKeepsPosition ==
  \A k \in 1..Len(result) :
    \A i \in 1..Len(result[k].moves) :
      Unresolvable(result[k].moves, result[k].initialFen, i) =>
        Placement(result[k].moves[i].fenAfter) =
          Placement(PositionBefore(result[k].moves, result[k].initialFen, i))


\* the loop is at a close-variation token with a variation open
AtCloseOfVariation ==
  /\ pc = "token"
  /\ ti < Len(rawTokens)
  /\ rawTokens[ti + 1] = <<")">>
  /\ Len(sequenceStack) >= 2

\* under, the sequence below the top of the stack, becomes after: the same
\* nodes, the last one with finished after the variations it had
AppendedToLast(under, finished, after) ==
  /\ Len(after) = Len(under)
  /\ \A i \in 1..(Len(under) - 1) : after[i] = under[i]
  /\ after[Len(under)] =
       [under[Len(under)] EXCEPT
          !.variations = under[Len(under)].variations \o <<finished>>]

\* C15: a close-variation token with a variation open pops the top sequence
\* and appends it, after the variations already there, to the last node of
\* the sequence then on top, whichever depth that is; every sequence below
\* is as it was; if the sequence then on top is empty the popped sequence is
\* dropped and nothing else changes.
C15_CloseAttachesToEnclosing ==
  [][ AtCloseOfVariation =>
        /\ pc' = "token"
        /\ ti' = ti + 1
        /\ UNCHANGED <<comment, expectingBlack, moveNumber, result, headers>>
        /\ Len(sequenceStack') = Len(sequenceStack) - 1
        /\ \A d \in 1..(Len(sequenceStack) - 2) :
             sequenceStack'[d] = sequenceStack[d]
        /\ IF sequenceStack[Len(sequenceStack) - 1] = <<>>
           THEN sequenceStack'[Len(sequenceStack) - 1] = <<>>
           ELSE AppendedToLast(sequenceStack[Len(sequenceStack) - 1],
                               sequenceStack[Len(sequenceStack)],
                               sequenceStack'[Len(sequenceStack) - 1]) ]_vars

\* the nested sample has been parsed: e5 carries two variations, the first
\* of them with a variation on its own first node
C15_Witness ==
  /\ pc = "return"
  /\ pgnText = SampleNested
  /\ Len(result) = 1
  /\ Len(result[1].moves) = 3
  /\ Len(result[1].moves[2].variations) = 2
  /\ Len(result[1].moves[2].variations[1]) = 2
  /\ Len(result[1].moves[2].variations[1][1].variations) = 1
  /\ result[1].moves[2].variations[1][1].variations[1][1].san = <<"d", "5">>
  /\ result[1].moves[2].variations[2][1].san = <<"d", "6">>


\* the tokens of the chunk are used up with a variation still open
OpenAtEnd ==
  /\ pc = "token"
  /\ ti = Len(rawTokens)
  /\ Len(sequenceStack) >= 2
  /\ ~fenToBoardThrows(StartFen(headers))

\* the nesting depth after the first k tokens
DepthAfter(toks, k) ==
  Cardinality({i \in 1..k : toks[i] = <<"(">>})
  - Cardinality({i \in 1..k : toks[i] = <<")">>})

RECURSIVE MainLineToks(_, _)
\* the move tokens among the first k that stand outside every parenthesis
MainLineToks(toks, k) ==
  IF k = 0 THEN <<>>
  ELSE MainLineToks(toks, k - 1)
       \o (IF TokKind(toks[k]) = "move" /\ DepthAfter(toks, k - 1) = 0
           THEN <<toks[k]>> ELSE <<>>)

RECURSIVE SameTree(_, _)
\* out is built node for node, variation for variation, with a position
\* added to each node
SameTree(out, built) ==
  /\ Len(out) = Len(built)
  /\ \A i \in 1..Len(built) :
       /\ out[i] = [built[i] EXCEPT !.fenAfter = out[i].fenAfter,
                                    !.variations = out[i].variations]
       /\ Len(out[i].variations) = Len(built[i].variations)
       /\ \A j \in 1..Len(built[i].variations) :
            SameTree(out[i].variations[j], built[i].variations[j])

\* the chunk adds one Game to result: its main line is the main line of the
\* stack, which holds the move tokens outside every parenthesis, and its
\* tree has no node of a sequence left open
AddsMainLineGame ==
  /\ Len(result') = Len(result) + 1
  /\ SubSeq(result', 1, Len(result)) = result
  /\ result'[Len(result')].headers = headers
  /\ SameTree(result'[Len(result')].moves, sequenceStack[1])
  /\ [i \in 1..Len(sequenceStack[1]) |-> sequenceStack[1][i].san]
       = MainLineToks(rawTokens, Len(rawTokens))

AtToken(kind) ==
  /\ pc = "token"
  /\ ti < Len(rawTokens)
  /\ TokKind(rawTokens[ti + 1]) = kind

\* the number a move-number token is written with
WrittenNumber(tok) == parseInt(SubSeq(tok, 1, RunLen(tok, 1, DigitChars)))

\* the node a move token makes: the last node of the top sequence after
\* the step
NodeMade == Last(Last(sequenceStack'))

\* C17: a move-number token n sets the counter to n and the flag to whether
\* it is written with "..."; a move token makes a node that is White iff
\* the flag is clear, with the counter as its number (and the Black mark
\* when Black), appends it to the sequence on top of the stack, flips the
\* flag and adds one to the counter iff the node is Black's.
C17_NumberAndMoveTokens ==
  [][ /\ AtToken("number") =>
           /\ moveNumber' = WrittenNumber(rawTokens[ti + 1])
           /\ expectingBlack' =
                Includes(rawTokens[ti + 1], <<".", ".", ".">>)
           /\ UNCHANGED <<sequenceStack, comment>>
      /\ AtToken("move") =>
           /\ Len(sequenceStack') = Len(sequenceStack)
           /\ \A d \in 1..(Len(sequenceStack) - 1) :
                sequenceStack'[d] = sequenceStack[d]
           /\ Last(sequenceStack') = Append(Last(sequenceStack), NodeMade)
           /\ NodeMade.san = rawTokens[ti + 1]
           /\ NodeMade.isWhite = ~expectingBlack
           /\ NodeMade.number = IF expectingBlack THEN 2 * moveNumber + 1
                                ELSE 2 * moveNumber
           /\ expectingBlack' = ~expectingBlack
           /\ moveNumber' = IF expectingBlack THEN moveNumber + 1
                            ELSE moveNumber ]_vars

\* a Black node has just been made after the token 1...
C17_Witness ==
  /\ pc = "token"
  /\ ti >= 2
  /\ rawTokens[ti - 1] = <<"1", ".", ".", ".">>
  /\ TokKind(rawTokens[ti]) = "move"
  /\ Last(sequenceStack) # <<>>
  /\ ~Last(Last(sequenceStack)).isWhite
  /\ Last(Last(sequenceStack)).number = 3
  /\ moveNumber = 2
  /\ ~expectingBlack


\* the lines of the chunk the for loop is in
ChunkLinesNow == SplitOn(rawGames[gi], LF)

NonBlank(line) == Trim(line) # <<>>

HeaderShaped(line) == HeaderMatch(Trim(line)).ok

\* the first non-blank line that has not the header shape; one past the
\* last line if there is none
FirstNotShaped(lines) ==
  IF \E i \in 1..Len(lines) : NonBlank(lines[i]) /\ ~HeaderShaped(lines[i])
  THEN CHOOSE i \in 1..Len(lines) :
         /\ NonBlank(lines[i]) /\ ~HeaderShaped(lines[i])
         /\ \A j \in 1..(i - 1) :
              ~(NonBlank(lines[j]) /\ ~HeaderShaped(lines[j]))
  ELSE Len(lines) + 1

\* the first non-blank line that does not begin with a bracket; one past
\* the last line if there is none
FirstNotBracket(lines) ==
  IF \E i \in 1..Len(lines) : NonBlank(lines[i]) /\ Trim(lines[i])[1] # "["
  THEN CHOOSE i \in 1..Len(lines) :
         /\ NonBlank(lines[i]) /\ Trim(lines[i])[1] # "["
         /\ \A j \in 1..(i - 1) :
              ~(NonBlank(lines[j]) /\ Trim(lines[j])[1] # "[")
  ELSE Len(lines) + 1

\* hs holds the header-shaped lines before line e, a later line with the
\* same key over an earlier one, and nothing else
HeadersBefore(lines, e, hs) ==
  LET shaped == {i \in 1..(e - 1) : HeaderShaped(lines[i])}
  IN /\ DOMAIN hs = {HeaderMatch(Trim(lines[i])).key : i \in shaped}
     /\ \A i \in shaped :
          (\A j \in shaped :
             j > i => HeaderMatch(Trim(lines[j])).key
                        # HeaderMatch(Trim(lines[i])).key)
          => hs[HeaderMatch(Trim(lines[i])).key]
               = HeaderMatch(Trim(lines[i])).value

\* the non-blank lines from line e on, trimmed: the move text
MoveTextFrom(lines, e) ==
  SelectSeq([i \in 1..(Len(lines) - e + 1) |-> Trim(lines[e + i - 1])],
            LAMBDA t : t # <<>>)

\* the header loop left header mode at line e for good
LeftHeaderModeAt(lines, e) ==
  /\ HeadersBefore(lines, e, headers)
  /\ rawTokens = Tokenize(MoveTextFrom(lines, e))

\* C18 as stated: the parser leaves InHeaders at the first non-blank line
\* that has not the header shape and never returns.
C18_LeavesAtFirstUnshaped ==
  (pc = "token" /\ gi >= 1) =>
    LeftHeaderModeAt(ChunkLinesNow, FirstNotShaped(ChunkLinesNow))

\* C18 amended: the parser leaves InHeaders at the first non-blank line
\* that does not begin with "[" and never returns: a header-shaped line
\* after it adds no header and is move text; a bracket line before it that
\* has not the header shape is skipped and header mode goes on.
C18_HeaderModePermanent ==
  (pc = "token" /\ gi >= 1) =>
    LeftHeaderModeAt(ChunkLinesNow, FirstNotBracket(ChunkLinesNow))

\* a header-shaped line after the move text began, and its text among the
\* tokens
C18_Witness ==
  /\ pc = "token"
  /\ gi >= 1
  /\ \E i \in 1..Len(ChunkLinesNow) :
       /\ i > FirstNotBracket(ChunkLinesNow)
       /\ HeaderShaped(ChunkLinesNow[i])
       /\ HeaderMatch(Trim(ChunkLinesNow[i])).key \notin DOMAIN headers
  /\ DOMAIN headers # {}
  /\ \E k \in 1..Len(rawTokens) : rawTokens[k] = <<"[", "W">>


\* the last call of executeMove was given a non-castling token that matches
\* the SAN pattern
NonCastlingCall ==
  /\ pc = "engine"
  /\ applied >= 1
  /\ moveObj.san \notin CastlingSans
  /\ SanMatch(moveObj.san).ok

CallTarget ==
  <<8 - DigitVal(SanMatch(moveObj.san).targetRank),
    FileIdx(SanMatch(moveObj.san).targetFile)>>

CallBase ==
  IF SanMatch(moveObj.san).pieceType # None
  THEN SanMatch(moveObj.san).pieceType[1] ELSE "P"

\* the square holds a piece of the token's type and colour that passes the
\* source file and rank, the pawn-action test and the geometry test on the
\* board the call was given
PassesEveryFilter(sq) ==
  /\ IsPotential(beforeBoard, SanMatch(moveObj.san), CallBase,
                 IF moveObj.isWhite THEN toUpperCase(CallBase)
                 ELSE toLowerCase(CallBase),
                 moveObj.isWhite, sq[1], sq[2], CallTarget[1], CallTarget[2])
  /\ ~GeometryThrows(CallBase, sq[1], sq[2], CallTarget[1], CallTarget[2])
  /\ GeometryOk(beforeBoard, CallBase, sq[1], sq[2],
                CallTarget[1], CallTarget[2])

Passing == {sq \in Idx \X Idx : PassesEveryFilter(sq)}

\* rank 8 to rank 1, file a to file h
ScansBefore(sq, other) ==
  sq[1] < other[1] \/ (sq[1] = other[1] /\ sq[2] <= other[2])

\* the squares the call emptied
Vacated ==
  {sq \in Idx \X Idx :
     beforeBoard[sq[1]][sq[2]] # Null /\ board[sq[1]][sq[2]] = Null}

\* C19: the piece a non-castling call moves stands on the first square in
\* scan order among those that pass every filter; a piece that fails a
\* filter is never the one moved.
C19_FirstPassingInScanOrder ==
  (NonCastlingCall /\ board # beforeBoard) =>
    \A sq \in Vacated :
      /\ sq \in Passing
      /\ \A other \in Passing : ScansBefore(sq, other)

\* the square the call takes the piece from when some square passes
ResolvedSource ==
  CHOOSE sq \in Passing : \A other \in Passing : ScansBefore(sq, other)

PieceAfterMove ==
  IF SanMatch(moveObj.san).promotion # None
  THEN IF moveObj.isWhite
       THEN toUpperCase(SanMatch(moveObj.san).promotion[1])
       ELSE toLowerCase(SanMatch(moveObj.san).promotion[1])
  ELSE beforeBoard[ResolvedSource[1]][ResolvedSource[2]]

\* C20: after a resolved non-castling move the destination holds the moving
\* (or promoted) piece, the source is empty and every other square is as it
\* was.
C20_MoveFrame ==
  (NonCastlingCall /\ Passing # {}) =>
    /\ board[CallTarget[1]][CallTarget[2]] = PieceAfterMove
    /\ ResolvedSource # CallTarget =>
         board[ResolvedSource[1]][ResolvedSource[2]] = Null
    /\ \A r \in Idx : \A c \in Idx :
         (<<r, c>> # CallTarget /\ <<r, c>> # ResolvedSource) =>
           board[r][c] = beforeBoard[r][c]

(***************************************************************************)
(* Pawn moves                                                              *)
(***************************************************************************)
\* the last call was given a pawn token: no piece letter
PawnCall == NonCastlingCall /\ CallBase = "P"

Forward == IF moveObj.isWhite THEN -1 ELSE 1

StartRow == IF moveObj.isWhite THEN 6 ELSE 1

\* a pawn of the mover's colour stands on sq and sq agrees with the source
\* file and rank the token gives
PawnAt(sq) ==
  /\ beforeBoard[sq[1]][sq[2]] = (IF moveObj.isWhite THEN "P" ELSE "p")
  /\ SanMatch(moveObj.san).sourceFile # None =>
       FileIdx(SanMatch(moveObj.san).sourceFile[1]) = sq[2]
  /\ SanMatch(moveObj.san).sourceRank # None =>
       DigitVal(SanMatch(moveObj.san).sourceRank[1]) = 8 - sq[1]

SinglePush(sq) ==
  /\ sq[2] = CallTarget[2]
  /\ CallTarget[1] = sq[1] + Forward
  /\ beforeBoard[CallTarget[1]][CallTarget[2]] = Null

DoublePush(sq) ==
  /\ sq[2] = CallTarget[2]
  /\ sq[1] = StartRow
  /\ CallTarget[1] = sq[1] + 2 * Forward
  /\ beforeBoard[sq[1] + Forward][sq[2]] = Null
  /\ beforeBoard[CallTarget[1]][CallTarget[2]] = Null

DiagonalCapture(sq) ==
  /\ Abs(CallTarget[2] - sq[2]) = 1
  /\ CallTarget[1] = sq[1] + Forward
  /\ beforeBoard[CallTarget[1]][CallTarget[2]] # Null

PawnMayMove(sq) ==
  PawnAt(sq) /\ (SinglePush(sq) \/ DoublePush(sq) \/ DiagonalCapture(sq))

\* C21: a pawn token changes the board exactly when some pawn of the mover's
\* colour can reach the target by a single push onto an empty square, a
\* double push from its start rank over two empty squares, or a one-rank
\* forward diagonal step onto an occupied square, and the pawn that leaves
\* its square is such a pawn; in every other case (backward, sideways, a push
\* onto an occupied square, a diagonal step onto an empty square) the board
\* is returned unchanged.
C21_PawnMovesOnly ==
  PawnCall =>
    /\ board # beforeBoard <=> \E sq \in Idx \X Idx : PawnMayMove(sq)
    /\ \A sq \in Vacated : PawnMayMove(sq)

\* C21: a pawn captured diagonally and left its square
C21_Witness ==
  /\ PawnCall
  /\ board # beforeBoard
  /\ \E sq \in Vacated : PawnAt(sq) /\ DiagonalCapture(sq)

(***************************************************************************)
(* Material                                                                *)
(***************************************************************************)
WhitePieces == {"P", "N", "B", "R", "Q", "K"}

BlackPieces == {"p", "n", "b", "r", "q", "k"}

PieceCount(b, pieces) ==
  Cardinality({sq \in Idx \X Idx : b[sq[1]][sq[2]] \in pieces})

\* C29: applying a move token, castling included, to a board never increases
\* the number of pieces of either colour.
C29_PieceCountNeverGrows ==
  (pc = "engine" /\ applied >= 1) =>
    /\ PieceCount(board, WhitePieces) <= PieceCount(beforeBoard, WhitePieces)
    /\ PieceCount(board, BlackPieces) <= PieceCount(beforeBoard, BlackPieces)

\* a non-castling token never increases the number of pieces of either colour
NonCastlingCountNeverGrows ==
  (pc = "engine" /\ applied >= 1 /\ moveObj.san \notin CastlingSans) =>
    /\ PieceCount(board, WhitePieces) <= PieceCount(beforeBoard, WhitePieces)
    /\ PieceCount(board, BlackPieces) <= PieceCount(beforeBoard, BlackPieces)

(***************************************************************************)
(* Boards are never written through                                        *)
(***************************************************************************)
\* the main line the builder makes of SampleVariation
VariationTree ==
  BuildAll(NewBuilder, ChunkTokens(SampleVariation)).b.sequenceStack[1]

WithoutVariations(seq) ==
  [i \in 1..Len(seq) |-> [seq[i] EXCEPT !.variations = <<>>]]

FensAfter(seq) == [i \in 1..Len(seq) |-> seq[i].fenAfter]

RECURSIVE BoardBefore(_, _, _)
\* the board node i of seq is applied to when seq starts from start
BoardBefore(seq, start, i) ==
  IF i = 1 THEN start
  ELSE executeMove(BoardBefore(seq, start, i - 1), seq[i - 1])

RECURSIVE SamePositionsWithout(_, _)
\* in seq and in every variation below it the positions after the nodes are
\* those of the same sequence with the variations of its nodes taken away
SamePositionsWithout(seq, start) ==
  /\ FensAfter(processSequence(seq, start))
       = FensAfter(processSequence(WithoutVariations(seq), start))
  /\ \A i \in 1..Len(seq) : \A j \in 1..Len(seq[i].variations) :
       SamePositionsWithout(seq[i].variations[j], BoardBefore(seq, start, i))

Balanced(toks) ==
  /\ \A k \in 1..Len(toks) : DepthAfter(toks, k) >= 0
  /\ DepthAfter(toks, Len(toks)) = 0

RECURSIVE OutsideToks(_, _)
\* the first k tokens with every parenthesised group taken away
OutsideToks(toks, k) ==
  IF k = 0 THEN <<>>
  ELSE OutsideToks(toks, k - 1)
       \o (IF DepthAfter(toks, k - 1) = 0 /\ DepthAfter(toks, k) = 0
           THEN <<toks[k]>> ELSE <<>>)

\* notation, side, ply number and comment of the nodes of a sequence
NodesOf(seq) ==
  [i \in 1..Len(seq) |-> <<seq[i].move, seq[i].isWhite, seq[i].number,
                           seq[i].comment>>]

\* C25: variations are transparent to the main line: for a chunk with
\* balanced parentheses the main-line nodes (notation, side, ply number,
\* comment) are those of the same tokens with every parenthesised variation
\* removed.
C25_VariationsTransparent ==
  (OneChunk /\ Balanced(TextTokens)) =>
    NodesOf(result[1].moves)
      = NodesOf(BuildAll(NewBuilder,
                         OutsideToks(TextTokens, Len(TextTokens)))
                  .b.sequenceStack[1])

\* the same for the chunks in which a move-number token stands between
\* every close and the next move and no comment is pending at an open
C25_HoldsForSampleVariation ==
  (OneChunk /\ pgnText \in {SampleVariation, SampleNested}) =>
    NodesOf(result[1].moves)
      = NodesOf(BuildAll(NewBuilder,
                         OutsideToks(TextTokens, Len(TextTokens)))
                  .b.sequenceStack[1])

(***************************************************************************)
(* Export and parse again                                                  *)
(***************************************************************************)
RECURSIVE SameMoveTree(_, _)
\* the same sequences and variations with the same notation, side and
\* comment on every node
SameMoveTree(a, b) ==
  /\ Len(a) = Len(b)
  /\ \A i \in 1..Len(a) :
       /\ i <= Len(b)
       /\ a[i].move = b[i].move
       /\ a[i].isWhite = b[i].isWhite
       /\ a[i].comment = b[i].comment
       /\ Len(a[i].variations) = Len(b[i].variations)
       /\ \A j \in 1..Len(a[i].variations) :
            /\ j <= Len(b[i].variations)
            /\ SameMoveTree(a[i].variations[j], b[i].variations[j])

\* the exported text of the game parses to one game with the same move tree
ExportParsesBack(game) ==
  /\ Len(parsePGN(exportPGN(game))) = 1
  /\ SameMoveTree(parsePGN(exportPGN(game))[1].moves, game.moves)

\* C27: exporting a parsed game and parsing the exported text gives the same
\* move tree: the same sequences and variations, the same notation, side and
\* comment on every node.
C27_ExportRoundTrip ==
  pc = "return" => \A g \in 1..Len(result) : ExportParsesBack(result[g])

(***************************************************************************)
(* The viewer: text, debounced parse, selection, bookmarks                 *)
(***************************************************************************)
MaxBookmarks == 1

\* the text of loadSampleGame, lines 589-605, cut to its first header and
\* its first move
SamplePGN ==
  <<"[", "E", "v", "e", "n", "t", " ", "\"", "F", "/", "S", " ", "R", "e",
    "t", "u", "r", "n", " ", "M", "a", "t", "c", "h", "\"", "]", "\n", "\n",
    "1", ".", " ", "e", "4">>

\* two games, the second of two plies
TwoGamesText ==
  <<"[", "E", "v", "e", "n", "t", " ", "\"", "A", "\"", "]", "\n", "1", ".",
    " ", "e", "4", "\n", "\n", "[", "E", "v", "e", "n", "t", " ", "\"", "B",
    "\"", "]", "\n", "1", ".", " ", "d", "4", " ", "d", "5">>

\* the texts typed, pasted or loaded; <<>> is the cleared text area
UITexts == {<<>>, SampleNested, TwoGamesText}

\* ChessUtils.parsePGN(text) of line 577 for the texts of the model
Parsed == [t \in UITexts \cup {SamplePGN} |-> parsePGN(t)]

\* line 625: games[currentGameIndex] is a game
HasGame(gs, i) == i + 1 \in 1..Len(gs)

\* lines 627-640: computing currentMove or reading currentMove.fenAfter
\* throws while rendering
RenderThrows(gs, i, p) ==
  /\ HasGame(gs, i)
  /\ p # <<>>
  /\ getMove(gs[i + 1].moves, p).kind # "node"

\* the state setters of games, currentGameIndex and currentPath, and the
\* render that follows; a throw while rendering unmounts the viewer
Show(gs, i, p) ==
  /\ games' = gs
  /\ currentGameIndex' = i
  /\ currentPath' = p
  /\ pc' = IF RenderThrows(gs, i, p) THEN "crashed" ELSE "ui"

\* the effect of lines 614-623, run when the pgnText state became t: the
\* cleared text resets the games and leaves the timer as it is, any other
\* text is scheduled
TextEffect(t) ==
  IF t = <<>>
  THEN timer' = timer /\ Show(<<>>, 0, <<>>)
  ELSE timer' = <<t>> /\ Show(games, currentGameIndex, currentPath)

\* setPgnText(t); scheduleParse(t) of lines 606-607, 704-705, 732-733 and
\* 748-749, then the effect when the state changed: scheduleParse, lines
\* 573-586, clears the pending timer and sets one for t
Load(t) ==
  /\ text' = t
  /\ timer' = <<t>>
  /\ IF t # text /\ t = <<>>
     THEN Show(<<>>, 0, <<>>)
     ELSE Show(games, currentGameIndex, currentPath)
  /\ UNCHANGED <<bookmarks, parserVars, engineVars>>

InitUI ==
  /\ pc = "ui"
  /\ ParserIdle
  /\ EngineIdle
  /\ UIIdle

\* onChange of the text area, line 973: setPgnText(e.target.value)
TypeText ==
  /\ pc = "ui"
  /\ \E t \in UITexts :
       /\ t # text
       /\ text' = t
       /\ TextEffect(t)
  /\ UNCHANGED <<bookmarks, parserVars, engineVars>>

\* loadSampleGame, lines 588-608, on mount and from its button
LoadSample ==
  /\ pc = "ui"
  /\ Load(SamplePGN)

\* reader.onload of handleFileUpload, lines 702-708, and handleURLImport,
\* lines 747-749
LoadFile ==
  /\ pc = "ui"
  /\ \E t \in UITexts : Load(t)

\* pasted.includes('[Event ') || /1\.\s/.test(pasted)
PasteAccepted(t) ==
  \/ Includes(t, Chars_Event \o <<" ">>)
  \/ \E i \in 1..(Len(t) - 2) :
       t[i] = "1" /\ t[i + 1] = "." /\ t[i + 2] \in Whitespace

\* the texts handlePaste takes: not empty (line 730) and accepted
PasteTexts == {t \in UITexts : t # <<>> /\ PasteAccepted(t)}

\* handlePaste, lines 728-737
Paste ==
  /\ pc = "ui"
  /\ \E t \in PasteTexts : Load(t)

\* the callback of setTimeout, lines 575-585
TimerFires ==
  /\ pc = "ui"
  /\ timer # <<>>
  /\ timer' = <<>>
  /\ Show(Parsed[timer[1]], 0, <<>>)
  /\ UNCHANGED <<text, bookmarks, parserVars, engineVars>>

\* a handler that sets the selection only
Select(i, p) ==
  /\ Show(games, i, p)
  /\ UNCHANGED <<text, timer, bookmarks, parserVars, engineVars>>

\* navigateMove(delta), lines 667-676, from the arrow keys and buttons
NavigateMove ==
  /\ pc = "ui"
  /\ HasGame(games, currentGameIndex)
  /\ \E delta \in {-1, 1} :
       Select(currentGameIndex,
              navigateTarget(games[currentGameIndex + 1].moves,
                             currentPath, delta))

\* goToStart, lines 678-681
GoToStart ==
  /\ pc = "ui"
  /\ Select(currentGameIndex, <<>>)

\* goToEnd, lines 683-688
GoToEnd ==
  /\ pc = "ui"
  /\ HasGame(games, currentGameIndex)
  /\ Select(currentGameIndex,
            IF games[currentGameIndex + 1].moves = <<>> THEN <<>>
            ELSE Last(flattenSeq(games[currentGameIndex + 1].moves, <<>>)))

\* goToPreviousGame, lines 650-656
GoToPreviousGame ==
  /\ pc = "ui"
  /\ currentGameIndex > 0
  /\ Select(currentGameIndex - 1, <<>>)

\* goToNextGame, lines 658-664
GoToNextGame ==
  /\ pc = "ui"
  /\ currentGameIndex < Len(games) - 1
  /\ Select(currentGameIndex + 1, <<>>)

\* onClick of a game card, lines 1444-1448
SelectGame ==
  /\ pc = "ui"
  /\ \E idx \in 0..(Len(games) - 1) : Select(idx, <<>>)

\* onSelect of the move list, line 342, and of the timeline, line 491:
\* setCurrentPath with a path of the current game
SelectPath ==
  /\ pc = "ui"
  /\ HasGame(games, currentGameIndex)
  /\ \E k \in 1..Len(flattenSeq(games[currentGameIndex + 1].moves, <<>>)) :
       Select(currentGameIndex,
              flattenSeq(games[currentGameIndex + 1].moves, <<>>)[k])

\* addBookmark, lines 759-774; id, desc and timestamp are left out
AddBookmark ==
  /\ pc = "ui"
  /\ Len(bookmarks) < MaxBookmarks
  /\ HasGame(games, currentGameIndex)
  /\ currentPath # <<>>
  /\ bookmarks' =
       <<[gameIndex |-> currentGameIndex,
          movePath  |-> currentPath,
          fen       |-> getMove(games[currentGameIndex + 1].moves,
                                currentPath).node.fenAfter]>>
         \o SubSeq(bookmarks, 1, IF Len(bookmarks) < 19 THEN Len(bookmarks)
                                 ELSE 19)
  /\ UNCHANGED <<pc, text, timer, games, currentGameIndex, currentPath,
                 parserVars, engineVars>>

\* removeBookmark, lines 776-780
RemoveBookmark ==
  /\ pc = "ui"
  /\ \E k \in 1..Len(bookmarks) :
       bookmarks' = SubSeq(bookmarks, 1, k - 1)
                      \o SubSeq(bookmarks, k + 1, Len(bookmarks))
  /\ UNCHANGED <<pc, text, timer, games, currentGameIndex, currentPath,
                 parserVars, engineVars>>

\* "Go to position" of a bookmark, lines 1352-1357
GoToBookmark ==
  /\ pc = "ui"
  /\ \E k \in 1..Len(bookmarks) :
       Select(bookmarks[k].gameIndex, bookmarks[k].movePath)

\* disabled of the next-move button, line 1232
NextDisabled ==
  \/ ~HasGame(games, currentGameIndex)
  \/ Len(currentPath)
       >= Len(flattenSeq(games[currentGameIndex + 1].moves, <<>>)) - 1

NextUI ==
  \/ TypeText
  \/ LoadSample
  \/ LoadFile
  \/ Paste
  \/ TimerFires
  \/ NavigateMove
  \/ GoToStart
  \/ GoToEnd
  \/ GoToPreviousGame
  \/ GoToNextGame
  \/ SelectGame
  \/ SelectPath
  \/ AddBookmark
  \/ RemoveBookmark
  \/ GoToBookmark

SpecUI == InitUI /\ [][NextUI]_vars

(***************************************************************************)
(* Properties of the viewer                                                *)
(***************************************************************************)
Viewing == pc \in {"ui", "crashed"}

CurrentMoves == games[currentGameIndex + 1].moves

CurrentFlat == flattenSeq(CurrentMoves, <<>>)

\* C23: under every interleaving of text changes and timer firings at most
\* one parse is pending, and whenever none is pending the games shown are the
\* parse of the latest text (no games for the empty text): a parse of a
\* superseded text is never applied over the state of a later text.
C23_GamesFollowText ==
  Viewing =>
    /\ Len(timer) <= 1
    /\ timer = <<>> => games = Parsed[text]

\* at most one parse is pending, and a pending parse is of the latest text
\* unless the text is the cleared one
C23_PendingIsLatest ==
  Viewing =>
    /\ Len(timer) <= 1
    /\ (timer # <<>> /\ text # <<>>) => timer[1] = text

\* C26: in every state of the viewer currentGameIndex is 0 or the index of a
\* game of the list, and currentPath is empty or addresses a node of the
\* current game.
C26_SelectionValid ==
  Viewing =>
    /\ currentGameIndex = 0 \/ HasGame(games, currentGameIndex)
    /\ \/ currentPath = <<>>
       \/ /\ HasGame(games, currentGameIndex)
          /\ getMove(CurrentMoves, currentPath).kind = "node"

\* C30: the next-move button is disabled exactly when there is no current
\* game or the selected node is the last in flattened order; it is enabled
\* at the start position of a game with a move.
C30_NextDisabledAtLast ==
  pc = "ui" =>
    (NextDisabled <=>
       \/ ~HasGame(games, currentGameIndex)
       \/ (CurrentFlat # <<>> /\ currentPath = Last(CurrentFlat)))

RECURSIVE NodeCount(_)
\* the nodes of a sequence and of every variation below it
NodeCount(seq) ==
  IF seq = <<>> THEN 0
  ELSE 1 + NodeCount(Tail(seq))
         + NodeCount(Flatten(Head(seq).variations))

RECURSIVE NodeAt(_, _)
\* the node a path addresses: an index into the sequence, then for every
\* further pair the index of a variation of that node and an index into it
NodeAt(seq, path) ==
  IF Len(path) = 1 THEN seq[path[1] + 1]
  ELSE NodeAt(seq[path[1] + 1].variations[path[2] + 1],
              SubSeq(path, 3, Len(path)))

\* p comes before q in depth-first order: a node before its variations, a
\* variation before the later variations and the later siblings
PathBefore(p, q) ==
  \E k \in 1..Len(q) :
    /\ \A h \in 1..(k - 1) : h <= Len(p) /\ p[h] = q[h]
    /\ k > Len(p) \/ p[k] < q[k]

\* flat lists the nodes of moves once each, in depth-first order, by paths
\* that getMove resolves to the nodes they address
ListsInOrder(moves, flat) ==
  /\ Len(flat) = NodeCount(moves)
  /\ \A k \in 1..Len(flat) :
       /\ Len(flat[k]) % 2 = 1
       /\ getMove(moves, flat[k]).kind = "node"
       /\ getMove(moves, flat[k]).node = NodeAt(moves, flat[k])
       /\ k > 1 => PathBefore(flat[k - 1], flat[k])

FlattenedInOrder(moves) == ListsInOrder(moves, flattenSeq(moves, <<>>))

\* C24: flattenSeq lists every node of the tree exactly once, in depth-first
\* order, each as a path of odd length that alternates sequence index and
\* variation index, and getMove returns the node a listed path addresses.
C24_FlattenAndGet ==
  Viewing => \A g \in 1..Len(games) : FlattenedInOrder(games[g].moves)

\* C24: the games shown have a variation inside a variation
C24_Witness ==
  /\ pc = "ui"
  /\ \E g \in 1..Len(games) :
       \E k \in 1..Len(flattenSeq(games[g].moves, <<>>)) :
         Len(flattenSeq(games[g].moves, <<>>)[k]) = 5

\* the place of a selection in flattened order, 0 for the start position
Position(flat, path) ==
  IF path = <<>> THEN 0 ELSE findIndex(flat, path) + 1

Clamp(n, lo, hi) == IF n < lo THEN lo ELSE IF n > hi THEN hi ELSE n

RECURSIVE ForwardFromStart(_, _)
\* the selection after k presses of "next" from the start position
ForwardFromStart(moves, k) ==
  IF k = 0 THEN <<>>
  ELSE navigateTarget(moves, ForwardFromStart(moves, k - 1), 1)

\* flat is the flattened order of moves and path the selection
NavigatesByDelta(moves, flat, path) ==
  /\ Position(flat, path) \in 0..Len(flat)
  /\ path # <<>> => flat[Position(flat, path)] = path
  /\ \A delta \in {-2, -1, 1, 2} :
       Position(flat, navigateTarget(moves, path, delta))
         = Clamp(Position(flat, path) + delta, 0, Len(flat))
  /\ \A k \in 1..Len(flat) : ForwardFromStart(moves, k) = flat[k]
  /\ ForwardFromStart(moves, Len(flat) + 1)
       = ForwardFromStart(moves, Len(flat))
  /\ Position(flat, path) < Len(flat) =>
       navigateTarget(moves, navigateTarget(moves, path, 1), -1) = path

\* C28: navigateMove(delta) moves the selection by delta places in flattened
\* order, the start position standing before the first node, and stops at
\* the start and at the last node; "next" pressed again and again from the
\* start visits every node once, in order, and then stays on the last; a
\* step forward that is not stopped, followed by a step back, returns to the
\* selection it left.
C28_NavigateByDelta ==
  (pc = "ui" /\ HasGame(games, currentGameIndex)) =>
    NavigatesByDelta(CurrentMoves, CurrentFlat, currentPath)

\* C28: the selection is the node of a variation and a step forward leaves
\* the variation for the main line
C28_Witness ==
  /\ pc = "ui"
  /\ HasGame(games, currentGameIndex)
  /\ Len(currentPath) = 3
  /\ Len(navigateTarget(CurrentMoves, currentPath, 1)) = 1

=============================================================================
